---- MODULE Spec2Model ----
(***************************************************************************)
(* A model of @instun/did-key: the suite registry (lib/suites.js), the     *)
(* credential / presentation entry points (lib/browser.js) and the abstract *)
(* behaviour of the signing and verification primitives they delegate to.   *)
(*                                                                          *)
(* Strings that the code slices (DIDs, multibase keys, challenges) are      *)
(* sequences of one-character strings; names that are only compared         *)
(* (cryptosuite names, key types, error messages) are TLA+ strings.         *)
(* A signature is ideal: it records the signing key and the exact data it   *)
(* was made over, and verifies only against that key and that data.         *)
(***************************************************************************)
EXTENDS Integers, Sequences, FiniteSets, TLC

VARIABLES
    keys,        \* the key objects returned by generate, in order of generation
    credential,  \* the caller's credential object handed to issueCredential
    vc,          \* the verifiable credential the caller holds after issueCredential
    dvc,         \* the credential returned by deriveCredential
    vp,          \* the presentation the caller holds after signPresentation
    issued,      \* what issueCredential returned (never altered afterwards)
    signed,      \* what signPresentation returned (never altered afterwards)
    credResult,  \* outcome of the last verifyCredential call
    presResult,  \* outcome of the last verifyPresentation call
    calls,       \* the options and outcome of the issue, derive and sign calls
    tampers,     \* number of alterations made so far to vc and vp
    didString,   \* a DID string handed to the identity codec
    parseResult, \* outcome of parseDid(didString)
    keyArgument, \* the caller's argument of getKeyPair: a key object or a DID
    keyPairResult, \* outcome of getKeyPair(keyArgument)
    contexts,    \* the context store: the document held under each URL
    loads,       \* the documentLoader calls of each caller, and where each stands
    issues,      \* the issueCredential call of each caller, and where it stands
    drawn        \* the challenge a caller supplies and the bytes getRandomValues draws

vars == <<keys, credential, vc, dvc, vp, issued, signed, credResult, presResult,
          calls, tampers, didString, parseResult, keyArgument, keyPairResult,
          contexts, loads, issues, drawn>>

\* The variables of the credential protocol, those of the identity codec and
\* those of the document loader.
protocolVars == <<keys, credential, vc, dvc, vp, issued, signed, credResult,
                  presResult, calls, tampers>>
codecVars == <<didString, parseResult, keyArgument, keyPairResult>>
loaderVars == <<contexts, loads, issues>>
challengeVars == <<drawn>>

(***************************************************************************)
(* Bounds                                                                  *)
(***************************************************************************)
\* How many alterations of held documents one behaviour may make.
MaxTampers == 1

\* The keys one behaviour generates: the issuer's, then the holder's.
Roles == <<"issuer", "holder">>

(***************************************************************************)
(* Strings as character sequences                                          *)
(***************************************************************************)
Min(a, b) == IF a < b THEN a ELSE b

\* String.prototype.slice(0, n)
slice0(s, n) == SubSeq(s, 1, Min(n, Len(s)))

\* String.prototype.substring(n)
substring(s, n) == SubSeq(s, n + 1, Len(s))

\* String.prototype.startsWith(p)
startsWith(s, p) == Len(s) >= Len(p) /\ SubSeq(s, 1, Len(p)) = p

\* Index of the first occurrence of character c in s, 0 when there is none.
IndexOf(s, c) ==
    IF \E i \in 1..Len(s) : s[i] = c
    THEN CHOOSE i \in 1..Len(s) : s[i] = c /\ \A j \in 1..(i - 1) : s[j] # c
    ELSE 0

\* The value JavaScript calls undefined, where a string was expected.
Undefined == <<"undefined">>

\* did.split('#')[0]
SplitHead(s) == IF IndexOf(s, "#") = 0 THEN s ELSE SubSeq(s, 1, IndexOf(s, "#") - 1)

\* did.split('#')[1]
SplitSecond(s) ==
    IF IndexOf(s, "#") = 0 THEN Undefined
    ELSE LET rest == SubSeq(s, IndexOf(s, "#") + 1, Len(s))
         IN SplitHead(rest)

DidKeyPrefix == <<"d", "i", "d", ":", "k", "e", "y", ":">>

(***************************************************************************)
(* Key types, multibase headers and generated keys                         *)
(***************************************************************************)
KeyTypes == {"P-256", "P-384", "P-521", "SM2", "Ed25519", "Bls12381"}

\* The three-character multibase header each key library gives its keys.
HeaderOf(type) ==
    CASE type = "P-256"    -> <<"z", "D", "n">>
      [] type = "P-384"    -> <<"z", "8", "2">>
      [] type = "P-521"    -> <<"z", "2", "J">>
      [] type = "SM2"      -> <<"z", "E", "P">>
      [] type = "Ed25519"  -> <<"z", "6", "M">>
      [] type = "Bls12381" -> <<"z", "U", "C">>

\* The algorithm a multibase header stands for ("" for an unknown header).
AlgorithmOf(header) ==
    IF \E t \in KeyTypes : HeaderOf(t) = header
    THEN CHOOSE t \in KeyTypes : HeaderOf(t) = header
    ELSE ""

\* The rest of a generated public key: a fresh key differs from every earlier one.
KeyBody(n) == <<CASE n = 1 -> "1" [] n = 2 -> "2" [] n = 3 -> "3" [] OTHER -> "4">>

NoKey == [id |-> <<>>, controller |-> <<>>, publicKeyMultibase |-> <<>>,
          secretKeyMultibase |-> <<>>]

\* generaters: the keys of the table of key generators.
generaters == {"P-256", "P-384", "P-521", "SM2", "Ed25519", "Bls12381"}

\* generate(type): the n-th key generated, of the given type.
generate(type, n) ==
    LET publicKeyMultibase == HeaderOf(type) \o KeyBody(n)
        did == DidKeyPrefix \o publicKeyMultibase
    IN [id |-> did, controller |-> did,
        publicKeyMultibase |-> publicKeyMultibase,
        secretKeyMultibase |-> <<"s">> \o publicKeyMultibase]

(***************************************************************************)
(* lib/suites.js: the suite registry                                       *)
(***************************************************************************)
\* An absent (undefined) mandatoryPointers / selectivePointers option.
Absent == {"undefined"}

NoCryptosuite == [err |-> "", name |-> "", mode |-> "none", mandatoryPointers |-> {}]

Throw(c, message) == [c EXCEPT !.err = message]

\* The cryptosuite objects the registry hands out.
PlainCryptosuite(name) ==
    [err |-> "", name |-> name, mode |-> "plain", mandatoryPointers |-> {}]

\* <suite>.createSignCryptosuite(options): mandatoryPointers defaults to [].
createSignCryptosuite(name, options) ==
    [err |-> "", name |-> name, mode |-> "sign",
     mandatoryPointers |-> IF options.mandatoryPointers = Absent THEN {}
                           ELSE options.mandatoryPointers]

\* <suite>.createVerifyCryptosuite()
createVerifyCryptosuite(name) ==
    [err |-> "", name |-> name, mode |-> "verify", mandatoryPointers |-> {}]

\* <suite>.createDiscloseCryptosuite(options)
createDiscloseCryptosuite(name, options) ==
    [err |-> "", name |-> name, mode |-> "disclose",
     mandatoryPointers |-> {},
     selectivePointers |-> IF options.selectivePointers = Absent THEN {}
                           ELSE options.selectivePointers]

ecdsa_createCryptosuite(options) ==
    IF options.useSelectiveDisclosure
    THEN IF options.key.publicKeyMultibase = <<>>
         THEN Throw(NoCryptosuite, "TypeError")
         ELSE
         LET multibaseMultikeyHeader == slice0(options.key.publicKeyMultibase, 3)
         IN IF multibaseMultikeyHeader # <<"z", "D", "n">>
            THEN Throw(NoCryptosuite,
                       "ECDSA selective disclosure is only supported with P-256 keys")
            ELSE createSignCryptosuite("ecdsa-sd-2023", options)
    ELSE PlainCryptosuite("ecdsa-2019")

sm2_cryptosuite(options) ==
    IF options.useSelectiveDisclosure
    THEN createSignCryptosuite("sm2-sd-2023", options)
    ELSE PlainCryptosuite("sm2-2023")

ed25519_cryptosuite(options) ==
    IF options.useSelectiveDisclosure
    THEN Throw(NoCryptosuite, "Ed25519 does not support selective disclosure")
    ELSE PlainCryptosuite("eddsa-2022")

bls12381_cryptosuite(options) ==
    IF ~options.useSelectiveDisclosure
    THEN Throw(NoCryptosuite, "BLS12-381 must use selective disclosure")
    ELSE createSignCryptosuite("bbs-2023", options)

\* suites: the multibase headers the table has an entry for.
suites == {<<"z", "D", "n">>, <<"z", "8", "2">>, <<"z", "2", "J">>,
           <<"z", "E", "P">>, <<"z", "6", "M">>, <<"z", "U", "C">>}

\* suites[header].cryptosuite(options)
suites_cryptosuite(header, options) ==
    CASE header = <<"z", "D", "n">> -> ecdsa_createCryptosuite(options)
      [] header = <<"z", "8", "2">> -> ecdsa_createCryptosuite(options)
      [] header = <<"z", "2", "J">> -> ecdsa_createCryptosuite(options)
      [] header = <<"z", "E", "P">> -> sm2_cryptosuite(options)
      [] header = <<"z", "6", "M">> -> ed25519_cryptosuite(options)
      [] header = <<"z", "U", "C">> -> bls12381_cryptosuite(options)

\* suites[header].from(key): the key pair object of the key library.
suites_from(header, key) ==
    [id |-> key.id, controller |-> key.controller,
     publicKeyMultibase |-> key.publicKeyMultibase,
     secretKeyMultibase |-> key.secretKeyMultibase,
     algorithm |-> AlgorithmOf(header)]

\* A verification table without an entry for 'sm2-sd-2023'.
verifers_older == {"ecdsa-2019", "sm2-2023", "eddsa-2022", "bbs-2023", "ecdsa-sd-2023"}

\* verifers: the cryptosuite names the verification table has an entry for.
verifers == {"ecdsa-2019", "sm2-2023", "eddsa-2022", "bbs-2023", "ecdsa-sd-2023",
             "sm2-sd-2023"}

\* The property names every object literal inherits from Object.prototype: a
\* lookup table[name] finds a function (for '__proto__' the prototype object)
\* under each of them, although the table has no entry of its own for it.
ObjectPrototype ==
    {"constructor", "hasOwnProperty", "isPrototypeOf", "propertyIsEnumerable",
     "toLocaleString", "toString", "valueOf", "__proto__", "__defineGetter__",
     "__defineSetter__", "__lookupGetter__", "__lookupSetter__"}

\* What a lookup finds under an inherited name: a truthy value that is no suite.
Inherited(name) ==
    [err |-> "", name |-> name, mode |-> "inherited", mandatoryPointers |-> {}]

\* The table, had its 'eddsa-2022' entry been built from ecdsa2019Cryptosuite.
verifers_get_copied(name) ==
    IF name \in verifers
    THEN IF name \in {"bbs-2023", "ecdsa-sd-2023", "sm2-sd-2023"}
         THEN createVerifyCryptosuite(name)
         ELSE IF name = "eddsa-2022" THEN PlainCryptosuite("ecdsa-2019")
         ELSE PlainCryptosuite(name)
    ELSE IF name \in ObjectPrototype THEN Inherited(name)
    ELSE NoCryptosuite

\* verifers[name]: the verifier stored under a name, what the table inherits
\* under it, or undefined (NoCryptosuite).
verifers_get(name) ==
    IF name \in verifers
    THEN IF name \in {"bbs-2023", "ecdsa-sd-2023", "sm2-sd-2023"}
         THEN createVerifyCryptosuite(name)
         ELSE PlainCryptosuite(name)
    ELSE IF name \in ObjectPrototype THEN Inherited(name)
    ELSE NoCryptosuite

\* The list as the library ships it, had the module not pushed 'P-521' onto it.
ecdsa2019_requiredAlgorithm_unpushed == {"P-256", "P-384"}

\* ecdsa2019Cryptosuite.requiredAlgorithm after the module has pushed 'P-521'.
ecdsa2019_requiredAlgorithm == {"P-256", "P-384"} \cup {"P-521"}

NoKeyPair == [id |-> <<>>, controller |-> <<>>, publicKeyMultibase |-> <<>>,
              secretKeyMultibase |-> <<>>, algorithm |-> ""]

\* get_suite(key): the table entry for the key's header, or an error.
get_suite(key) ==
    LET multibaseMultikeyHeader == slice0(key.publicKeyMultibase, 3)
    IN IF multibaseMultikeyHeader \notin suites
       THEN [err |-> "Unsupported multibaseMultikeyHeader", header |-> multibaseMultikeyHeader]
       ELSE [err |-> "", header |-> multibaseMultikeyHeader]

fromMultibase(key) ==
    LET suite == get_suite(key)
    IN IF suite.err # "" THEN [err |-> suite.err, keyPair |-> NoKeyPair]
       ELSE [err |-> "", keyPair |-> suites_from(suite.header, key)]

\* A parseDid that strips the prefix from the whole DID, fragment included.
parseDid_unsplit(did) ==
    [didAuthority |-> SplitHead(did), keyIdFragment |-> SplitSecond(did),
     publicKeyMultibase |-> substring(did, Len(DidKeyPrefix))]

parseDid(did) ==
    LET didAuthority == SplitHead(did)
        keyIdFragment == SplitSecond(did)
        publicKeyMultibase == substring(didAuthority, Len(DidKeyPrefix))
    IN [didAuthority |-> didAuthority, keyIdFragment |-> keyIdFragment,
        publicKeyMultibase |-> publicKeyMultibase]

\* The argument of getKeyPair: a key object, a DID string, or something else.
KeyObject(k) == [typeof |-> "object", obj |-> k, str |-> <<>>]
DidString(s) == [typeof |-> "string", obj |-> NoKey, str |-> s]

\* A getKeyPair that trusts the publicKeyMultibase of the key object it is given.
getKeyPair_parsed_unchecked(arg, did, parsed) ==
    fromMultibase(IF arg.typeof = "string"
                  THEN [id |-> did, controller |-> parsed.didAuthority,
                        publicKeyMultibase |-> parsed.publicKeyMultibase,
                        secretKeyMultibase |-> <<>>]
                  ELSE IF arg.obj.publicKeyMultibase = <<>>
                  THEN [arg.obj EXCEPT
                           !.publicKeyMultibase = parsed.publicKeyMultibase]
                  ELSE arg.obj)

\* getKeyPair once its DID has been parsed: the key object is completed from the
\* DID, or the two are found to disagree.
getKeyPair_parsed(arg, did, parsed) ==
    IF arg.typeof = "object" /\ arg.obj.publicKeyMultibase # <<>>
       /\ arg.obj.publicKeyMultibase # parsed.publicKeyMultibase
    THEN [err |-> "Mismatched DID", keyPair |-> NoKeyPair]
    ELSE fromMultibase(IF arg.typeof = "string"
                       THEN [id |-> did, controller |-> parsed.didAuthority,
                             publicKeyMultibase |-> parsed.publicKeyMultibase,
                             secretKeyMultibase |-> <<>>]
                       ELSE IF arg.obj.publicKeyMultibase = <<>>
                       THEN [arg.obj EXCEPT
                                !.publicKeyMultibase = parsed.publicKeyMultibase]
                       ELSE arg.obj)

\* The caller's argument after getKeyPair(arg): a key object is copied first
\* (key = { ...did }) and only the copy is assigned to.
getKeyPair_argument(arg) == arg

getKeyPair(arg) ==
    IF arg.typeof \notin {"object", "string"}
    THEN [err |-> "Invalid DID", keyPair |-> NoKeyPair]
    ELSE IF arg.typeof = "object"
    THEN getKeyPair_parsed(arg, arg.obj.id, parseDid(arg.obj.id))
    ELSE getKeyPair_parsed(arg, arg.str, parseDid(arg.str))

(***************************************************************************)
(* Documents: credentials, presentations and proofs                        *)
(***************************************************************************)
NoProofValue == [kind |-> "none", signer |-> <<>>, stmts |-> {}, covered |-> <<>>]

\* set: the proofs of a document whose proof is an array (<<>>: a single proof).
NoProof == [type |-> "none", cryptosuite |-> "", verificationMethod |-> <<>>,
            proofPurpose |-> "", created |-> "", challenge |-> <<>>,
            proofValue |-> NoProofValue, set |-> <<>>]

\* document.proof when it is an array of proofs: the array has none of a proof's
\* properties (document.proof.cryptosuite is undefined).
ProofArray(proofs) == [NoProof EXCEPT !.type = "array", !.set = proofs]

NoDoc == [kind |-> "none", proof |-> NoProof]

\* test/demo_credential: the credential the caller starts from (no issuer, no
\* issuanceDate, a subject with dog_name and cat_name).
demo_credential ==
    [kind |-> "credential", issuer |-> <<>>, issuanceDate |-> "",
     credentialSubject |-> [dog_name |-> "Fido", cat_name |-> "tom"],
     foo |-> "", proof |-> NoProof]

\* The JSON pointers of the fields a credential holds, each with its value.
Statements(doc) ==
    (IF doc.issuer = <<>> THEN {} ELSE {<<"/issuer", doc.issuer>>})
    \cup (IF doc.issuanceDate = "" THEN {} ELSE {<<"/issuanceDate", doc.issuanceDate>>})
    \cup (IF doc.foo = "" THEN {} ELSE {<<"/foo", doc.foo>>})
    \cup {<<"/credentialSubject/" \o f, doc.credentialSubject[f]>> :
            f \in DOMAIN doc.credentialSubject}

\* The proof options a signature covers: the proof without its proofValue.
ProofOptions(proof) == [proof EXCEPT !.proofValue = NoProofValue]

\* The canonical form of a document that a plain signature covers: the document
\* without its proof, and the proof options.
Canonical(doc, proof) == <<[doc EXCEPT !.proof = NoProof], ProofOptions(proof)>>

\* The algorithms each cryptosuite accepts a key of.
RequiredAlgorithmOf(name) ==
    CASE name = "ecdsa-2019"    -> ecdsa2019_requiredAlgorithm
      [] name = "ecdsa-sd-2023" -> {"P-256"}
      [] name = "sm2-2023"      -> {"SM2"}
      [] name = "sm2-sd-2023"   -> {"SM2"}
      [] name = "eddsa-2022"    -> {"Ed25519"}
      [] name = "bbs-2023"      -> {"Bls12381"}
      [] OTHER                  -> {}

NoSuite == [err |-> "", cryptosuite |-> NoCryptosuite, verificationMethod |-> <<>>,
            signer |-> <<>>]

\* new DataIntegrityProof({signer, cryptosuite}): the suite object, or the error
\* of its constructor when the signer's algorithm is not one the suite accepts.
DataIntegrityProof(keyPair, cryptosuite) ==
    IF keyPair.algorithm \notin RequiredAlgorithmOf(cryptosuite.name)
    THEN [NoSuite EXCEPT !.err = "The signer's algorithm does not match the cryptosuite"]
    ELSE [err |-> "", cryptosuite |-> cryptosuite,
          verificationMethod |-> keyPair.id,
          signer |-> keyPair.publicKeyMultibase]

\* signer_suite(options)
signer_suite_of(keyPair, cryptosuite) ==
    IF cryptosuite.err # "" THEN [NoSuite EXCEPT !.err = cryptosuite.err]
    ELSE DataIntegrityProof(keyPair, cryptosuite)

signer_suite_for(options, got) ==
    IF got.err # "" THEN [NoSuite EXCEPT !.err = got.err]
    ELSE signer_suite_of(got.keyPair,
                         suites_cryptosuite(get_suite(got.keyPair).header,
                                            [options EXCEPT !.key = options.key.obj]))

signer_suite(options) == signer_suite_for(options, getKeyPair(options.key))

\* A derive_suite whose switch has a default branch that builds a disclose suite
\* for any name instead of throwing.
derive_suite_fallback(options) ==
    IF options.verifiableCredential.proof.type = "none"
    THEN [NoSuite EXCEPT !.err = "TypeError"]
    ELSE [err |-> "",
          cryptosuite |-> createDiscloseCryptosuite(
                              options.verifiableCredential.proof.cryptosuite, options),
          verificationMethod |-> <<>>, signer |-> <<>>]

\* A derive_suite whose switch has no case for 'sm2-sd-2023'.
derive_suite_older(options) ==
    LET name == options.verifiableCredential.proof.cryptosuite
    IN IF options.verifiableCredential.proof.type = "none"
       THEN [NoSuite EXCEPT !.err = "TypeError"]
       ELSE IF name \in {"bbs-2023", "ecdsa-sd-2023"}
       THEN [err |-> "", cryptosuite |-> createDiscloseCryptosuite(name, options),
             verificationMethod |-> <<>>, signer |-> <<>>]
       ELSE [NoSuite EXCEPT !.err = "Unsupported cryptosuite"]

\* derive_suite(options): the disclose suite for the credential's cryptosuite name.
\* Reading the cryptosuite of a credential that has no proof is a TypeError; a
\* name the switch has no case for (an absent one included) is unsupported.
derive_suite(options) ==
    LET name == options.verifiableCredential.proof.cryptosuite
    IN IF options.verifiableCredential.proof.type = "none"
       THEN [NoSuite EXCEPT !.err = "TypeError"]
       ELSE IF name \in {"bbs-2023", "ecdsa-sd-2023", "sm2-sd-2023"}
       THEN [err |-> "", cryptosuite |-> createDiscloseCryptosuite(name, options),
             verificationMethod |-> <<>>, signer |-> <<>>]
       ELSE [NoSuite EXCEPT !.err = "Unsupported cryptosuite"]

(***************************************************************************)
(* lib/browser.js: documentLoader, the context store and the network       *)
(***************************************************************************)
\* Documents. contexts[url] of a URL the store has no entry for (undefined), a
\* JSON object (a context, or a DID document with its properties) and the JSON
\* value null.
NoDocument == [json |-> "undefined", body |-> "", id |-> <<>>, controller |-> <<>>,
               publicKeyMultibase |-> <<>>, assertionMethod |-> {},
               authentication |-> {}]
JsonObject(body) == [NoDocument EXCEPT !.json = "object", !.body = body]

\* if (contexts[url]): undefined and null are falsy, objects and functions (what
\* a lookup finds under a name the store merely inherits from Object.prototype)
\* are truthy.
Truthy(document) == document.json \in {"object", "function"}

\* The names of Object.prototype, as URLs. A lookup under one of them finds a
\* function (under __proto__, the prototype object itself): a truthy value that
\* is no context.
ObjectPrototypeUrls ==
    {<<"c", "o", "n", "s", "t", "r", "u", "c", "t", "o", "r">>,
     <<"h", "a", "s", "O", "w", "n", "P", "r", "o", "p", "e", "r", "t", "y">>,
     <<"i", "s", "P", "r", "o", "t", "o", "t", "y", "p", "e", "O", "f">>,
     <<"p", "r", "o", "p", "e", "r", "t", "y", "I", "s", "E", "n", "u", "m", "e", "r", "a", "b", "l", "e">>,
     <<"t", "o", "L", "o", "c", "a", "l", "e", "S", "t", "r", "i", "n", "g">>,
     <<"t", "o", "S", "t", "r", "i", "n", "g">>,
     <<"v", "a", "l", "u", "e", "O", "f">>,
     <<"_", "_", "p", "r", "o", "t", "o", "_", "_">>,
     <<"_", "_", "d", "e", "f", "i", "n", "e", "G", "e", "t", "t", "e", "r", "_", "_">>,
     <<"_", "_", "d", "e", "f", "i", "n", "e", "S", "e", "t", "t", "e", "r", "_", "_">>,
     <<"_", "_", "l", "o", "o", "k", "u", "p", "G", "e", "t", "t", "e", "r", "_", "_">>,
     <<"_", "_", "l", "o", "o", "k", "u", "p", "S", "e", "t", "t", "e", "r", "_", "_">>}

\* contexts[url]: the entry the store has under url, else what the store
\* inherits under url, else undefined. A store is a function on the URLs it has
\* had entries for; an entry of NoDocument stands for no entry.
contexts_get(store, url) ==
    IF url \in DOMAIN store /\ store[url] # NoDocument THEN store[url]
    ELSE IF url \in ObjectPrototypeUrls THEN [NoDocument EXCEPT !.json = "function"]
    ELSE NoDocument

\* contexts[url] = document
contexts_set(store, url, document) ==
    [u \in DOMAIN store \cup {url} |-> IF u = url THEN document ELSE store[u]]

\* The document the loader synthesizes for a parsed did:key URL, or the error of
\* importing its key.
didDocument(parsed) ==
    LET got == fromMultibase([NoKey EXCEPT
                   !.publicKeyMultibase = parsed.publicKeyMultibase])
    IN IF got.err # "" THEN [err |-> got.err, document |-> NoDocument]
       ELSE [err |-> "",
             document |-> [json |-> "object", body |-> "did",
                           id |-> parsed.didAuthority,
                           controller |-> parsed.didAuthority,
                           publicKeyMultibase |-> parsed.publicKeyMultibase,
                           assertionMethod |-> {parsed.didAuthority},
                           authentication |-> {parsed.didAuthority}]]

\* What a documentLoader call gives its caller: the document, or an error.
NoLoadResult == [err |-> "", document |-> NoDocument]

\* The URLs loaded: a context built into the store, the custom context of the
\* demo credential, one more remote document, did:key URLs of a supported and
\* of an unsupported key header (each with a fragment), and a name of
\* Object.prototype.
BuiltinUrl == <<"h", "t", "t", "p", "s", ":", "/", "/", "w", "3", "/", "v", "1">>
CustomUrl == <<"h", "t", "t", "p", "s", ":", "/", "/", "i", "n", "s", "t", "u", "n">>
RemoteUrl == <<"h", "t", "t", "p", "s", ":", "/", "/", "e", "x">>
KeyUrl == DidKeyPrefix \o HeaderOf("P-256") \o KeyBody(1) \o <<"#", "k", "1">>
\* The last two: a did:key URL whose header no algorithm of the table has, and
\* a name the store inherits from Object.prototype.
Urls ==
    {BuiltinUrl, CustomUrl, RemoteUrl, KeyUrl,
     DidKeyPrefix \o <<"z", "Q", "3", "s", "#", "k", "1">>,
     <<"c", "o", "n", "s", "t", "r", "u", "c", "t", "o", "r">>}

\* What the network can answer a fetch with: the promise is rejected, the
\* response is not ok, or it is ok and its body parses (response.json()) to an
\* object, to null, or not at all.
InvalidJson == [NoDocument EXCEPT !.json = "invalid"]
Bodies == {JsonObject("a"), JsonObject("b"), [NoDocument EXCEPT !.json = "null"], InvalidJson}
FetchOutcomes ==
    {[status |-> "rejected", body |-> NoDocument],
     [status |-> "not ok", body |-> NoDocument]}
    \cup {[status |-> "ok", body |-> b] : b \in Bodies}

\* A loader that keeps what it fetched out of the store.
documentLoader_fetch_unstored(store, url, outcome) ==
    IF outcome.status # "ok" \/ outcome.body = InvalidJson
    THEN [err |-> "Cannot resolve DID document", document |-> NoDocument,
          contexts |-> store]
    ELSE [err |-> "", document |-> outcome.body, contexts |-> store]

\* A loader that, when its fetch has been overtaken by another, returns the
\* document the other one stored and leaves the store alone.
documentLoader_fetch_stale(store, url, outcome) ==
    IF outcome.status # "ok" \/ outcome.body = InvalidJson
    THEN [err |-> "Cannot resolve DID document", document |-> NoDocument,
          contexts |-> store]
    ELSE IF Truthy(contexts_get(store, url))
    THEN [err |-> "", document |-> contexts_get(store, url), contexts |-> store]
    ELSE [err |-> "", document |-> outcome.body,
          contexts |-> contexts_set(store, url, outcome.body)]

\* The try block of documentLoader, given what the fetch of url came to: the
\* document is assigned to contexts[url] and returned, or the error is wrapped.
documentLoader_fetch(store, url, outcome) ==
    IF outcome.status # "ok" \/ outcome.body = InvalidJson
    THEN [err |-> "Cannot resolve DID document", document |-> NoDocument,
          contexts |-> store]
    ELSE [err |-> "", document |-> outcome.body,
          contexts |-> contexts_set(store, url, outcome.body)]

\* A loader that looks for did:key URLs only after the network failed.
documentLoader_fetches_fetchFirst(store, url) == ~Truthy(contexts_get(store, url))

\* documentLoader(url) goes to the network: contexts[url] is falsy and url is no
\* did:key URL.
documentLoader_fetches(store, url) ==
    /\ ~Truthy(contexts_get(store, url))
    /\ ~(url # <<>> /\ startsWith(url, DidKeyPrefix))

\* documentLoader(url) up to its return or its call of fetch: the document
\* contexts[url], else the document synthesized for a did:key URL.
documentLoader_local(store, url) ==
    IF Truthy(contexts_get(store, url))
    THEN [err |-> "", document |-> contexts_get(store, url), contexts |-> store]
    ELSE [err |-> didDocument(parseDid(url)).err,
          document |-> didDocument(parseDid(url)).document,
          contexts |-> store]

\* The loader, had the synthesized DID document listed the key under
\* assertionMethod only.
documentLoader_noAuthentication(store, url, outcome) ==
    IF documentLoader_fetches(store, url)
    THEN documentLoader_fetch(store, url, outcome)
    ELSE IF Truthy(contexts_get(store, url))
    THEN documentLoader_local(store, url)
    ELSE [documentLoader_local(store, url) EXCEPT !.document.authentication = {}]

\* documentLoader(url) as one call, on the store as it is and given what a fetch
\* of url would come to: the document returned or the error thrown, and the
\* store after the call.
documentLoader(store, url, outcome) ==
    IF documentLoader_fetches(store, url)
    THEN documentLoader_fetch(store, url, outcome)
    ELSE documentLoader_local(store, url)

\* A document loader handed on in the options of a call: documentLoader on the
\* store `contexts`, with a network that answers a fetch with `fetch`.
Loader(store, outcome) == [contexts |-> store, fetch |-> outcome]

\* A network that answers no fetch.
Offline == [status |-> "rejected", body |-> NoDocument]

(***************************************************************************)
(* The signing and verification primitives (jsonld-signatures with a       *)
(* DataIntegrityProof suite), by their contract                            *)
(***************************************************************************)
assertionMethod == [term |-> "assertionMethod", challenge |-> <<>>]
authentication(challenge) == [term |-> "authentication", challenge |-> challenge]

\* What a selective-disclosure signature signs, statement by statement.
SignedStatements(doc) ==
    IF doc.kind = "credential" THEN Statements(doc)
    ELSE {<<"/verifiableCredential", doc.verifiableCredential>>}
         \cup (IF doc.foo = "" THEN {} ELSE {<<"/foo", doc.foo>>})

\* jsigs.sign(document, {suite, purpose}): the document with a new proof.
jsigs_sign(document, suite, purpose) ==
    LET options == [type |-> "DataIntegrityProof",
                    cryptosuite |-> suite.cryptosuite.name,
                    verificationMethod |-> suite.verificationMethod,
                    proofPurpose |-> purpose.term,
                    created |-> "t0",
                    challenge |-> purpose.challenge,
                    proofValue |-> NoProofValue,
                    set |-> <<>>]
        proofValue ==
            IF suite.cryptosuite.mode = "sign"
            THEN [kind |-> "base", signer |-> suite.signer,
                  stmts |-> SignedStatements(document),
                  covered |-> <<suite.cryptosuite.mandatoryPointers, options>>]
            ELSE [kind |-> "plain", signer |-> suite.signer, stmts |-> {},
                  covered |-> Canonical(document, options)]
    IN [document EXCEPT !.proof = [options EXCEPT !.proofValue = proofValue]]

\* Whether proofValue is a valid signature by the key publicKeyMultibase over the
\* document and the proof options, for a suite of the given mode.
SignatureVerifies(document, proof, mode, publicKeyMultibase) ==
    /\ proof.proofValue.signer = publicKeyMultibase
    /\ IF mode = "verify"
       THEN /\ proof.proofValue.kind = "derived"
            /\ proof.proofValue.stmts = SignedStatements(document)
            /\ proof.proofValue.covered[2] = ProofOptions(proof)
       ELSE /\ proof.proofValue.kind = "plain"
            /\ proof.proofValue.covered = Canonical(document, proof)

ProofResult(verified, id, error) ==
    [verified |-> verified, verificationMethod |-> [id |-> id], error |-> error]

\* The check of one matched proof once the verification method vm and its
\* controller document have been loaded.
VerifyProof_controlled(document, proof, suite, purpose, vm, controller) ==
    IF vm.err # "" THEN ProofResult(FALSE, <<>>, vm.err)
    ELSE IF AlgorithmOf(slice0(vm.document.publicKeyMultibase, 3))
                \notin RequiredAlgorithmOf(suite.name)
    THEN ProofResult(FALSE, <<>>, "Unsupported key for the cryptosuite")
    ELSE IF ~SignatureVerifies(document, proof, suite.mode,
                               vm.document.publicKeyMultibase)
    THEN ProofResult(FALSE, <<>>, "Invalid signature.")
    ELSE IF purpose.term = "authentication" /\ proof.challenge # purpose.challenge
    THEN ProofResult(FALSE, <<>>, "The challenge is not as expected")
    ELSE IF controller.err # ""
    THEN ProofResult(FALSE, <<>>, controller.err)
    ELSE IF vm.document.id \notin
                (IF purpose.term = "authentication"
                 THEN controller.document.authentication
                 ELSE controller.document.assertionMethod)
    THEN ProofResult(FALSE, <<>>, "Verification method is not authorized")
    ELSE ProofResult(TRUE, vm.document.id, "")

VerifyProof_resolved(document, proof, suite, purpose, vm, loader) ==
    VerifyProof_controlled(document, proof, suite, purpose, vm,
                           documentLoader(loader.contexts, vm.document.controller,
                                          loader.fetch))

\* No verification method supplied by the caller of a verification.
NoMethod == [typeof |-> "undefined", obj |-> NoKey, str |-> <<>>]

\* The verification method a proof is checked against: the one the caller
\* supplied (a key object or a DID string), else the one the proof names.
MethodId(proof, supplied) ==
    IF supplied.typeof = "object" THEN supplied.obj.id
    ELSE IF supplied.typeof = "string" THEN supplied.str
    ELSE proof.verificationMethod

\* The check of one matched proof: resolve the verification method through the
\* document loader, verify the signature, then validate the proof purpose against
\* the controller document.
VerifyProof(document, proof, suite, purpose, method, loader) ==
    VerifyProof_resolved(document, proof, suite, purpose,
                         documentLoader(loader.contexts, method, loader.fetch), loader)

\* The result of jsigs.verify when one proof matched and was checked.
OneResult(r, name) ==
    [thrown |-> FALSE, error |-> r.error, verified |-> r.verified,
     results |-> <<r>>, suite |-> name]

\* The original jsigs.verify(document, {suite, purpose}): it never throws. A
\* suite that is no suite object (it has no matchProof) makes it return a
\* TypeError; a proof that matches neither the suite nor the purpose is not
\* checked at all.
jsigs_verify(document, options) ==
    LET proof == document.proof
    IN IF options.suite.mode = "inherited"
       THEN [thrown |-> FALSE, error |-> "TypeError", verified |-> FALSE,
             results |-> <<>>, suite |-> options.suite.name]
       ELSE IF \/ proof.type # "DataIntegrityProof"
               \/ proof.cryptosuite # options.suite.name
               \/ proof.proofPurpose # options.purpose.term
       THEN [thrown |-> FALSE, error |-> "NotFoundError", verified |-> FALSE,
             results |-> <<>>, suite |-> options.suite.name]
       ELSE OneResult(VerifyProof(document, proof, options.suite, options.purpose,
                                  MethodId(proof, options.verificationMethod),
                                  options.documentLoader),
                      options.suite.name)

(***************************************************************************)
(* lib/suites.js: jsigs.verify replaced by a version that picks the suite  *)
(* from the proof's cryptosuite name                                       *)
(***************************************************************************)
\* jsigs.verify as the module replaces it: when the caller supplied no suite,
\* the suite is verifers[document.proof.cryptosuite], a lookup that also finds
\* what the table inherits; only a lookup that finds nothing (undefined) throws.
jsigs_verify_override(document, options) ==
    IF options.suite.mode = "none" /\ document.proof.type = "none"
    THEN [thrown |-> TRUE, error |-> "TypeError", verified |-> FALSE,
          results |-> <<>>, suite |-> ""]
    ELSE IF /\ options.suite.mode = "none"
            /\ verifers_get(document.proof.cryptosuite).mode = "none"
    THEN [thrown |-> TRUE, error |-> "Unsupported cryptosuite", verified |-> FALSE,
          results |-> <<>>, suite |-> ""]
    ELSE jsigs_verify(document,
             [options EXCEPT !.suite =
                 IF options.suite.mode # "none" THEN options.suite
                 ELSE verifers_get(document.proof.cryptosuite)])

(***************************************************************************)
(* lib/vc: issue, derive, signPresentation, verifyCredential and verify    *)
(***************************************************************************)
\* vc.issue({credential, suite}): stamps a missing issuanceDate, then signs for
\* the assertionMethod purpose.
vc_issue(options) ==
    LET dated == IF options.credential.issuanceDate = ""
                 THEN [options.credential EXCEPT !.issuanceDate = "now"]
                 ELSE options.credential
    IN [err |-> "", credential |-> dated,
        document |-> jsigs_sign(dated, options.suite, assertionMethod)]

\* What a disclosed credential keeps of the original: the fields the pointers name.
Reveal(doc, pointers) ==
    [kind |-> "credential",
     issuer |-> IF "/issuer" \in pointers THEN doc.issuer ELSE <<>>,
     issuanceDate |-> IF "/issuanceDate" \in pointers THEN doc.issuanceDate ELSE "",
     credentialSubject |->
         [f \in {g \in DOMAIN doc.credentialSubject :
                    ("/credentialSubject/" \o g) \in pointers}
            |-> doc.credentialSubject[f]],
     foo |-> IF "/foo" \in pointers THEN doc.foo ELSE "",
     proof |-> NoProof]

\* vc.derive({verifiableCredential, suite}): a new credential that holds the
\* mandatory and the selected fields, with a derived proof.
vc_derive(options) ==
    LET doc == options.verifiableCredential
        base == doc.proof.proofValue
    IN IF base.kind # "base"
       THEN [err |-> "proofValue must be a base proof", document |-> NoDoc]
       ELSE LET pointers == base.covered[1] \cup options.suite.cryptosuite.selectivePointers
                proofValue == [kind |-> "derived", signer |-> base.signer,
                               stmts |-> {st \in base.stmts : st[1] \in pointers},
                               covered |-> base.covered]
            IN [err |-> "",
                document |-> [Reveal(doc, pointers) EXCEPT
                                 !.proof = [doc.proof EXCEPT !.proofValue = proofValue]]]

\* vc.signPresentation({presentation, suite, challenge})
vc_signPresentation(options) ==
    [err |-> "",
     document |-> jsigs_sign(options.presentation, options.suite,
                             authentication(options.challenge))]

NoPass == [thrown |-> FALSE, error |-> "", verified |-> FALSE, results |-> <<>>,
           suite |-> ""]

\* An error raised inside a verification pass, reported as data: the pass is not
\* verified and its one result carries the error.
Reported(pass) ==
    IF pass.thrown
    THEN [thrown |-> FALSE, error |-> pass.error, verified |-> FALSE,
          results |-> <<ProofResult(FALSE, <<>>, pass.error)>>, suite |-> pass.suite]
    ELSE pass

\* vc.verifyCredential({credential, verificationMethod}): one pass of the
\* (replaced) jsigs.verify for the assertionMethod purpose, against the supplied
\* verification method if there is one. It does not throw: an error the pass
\* raises is returned in the result.
vc_verifyCredential(options) ==
    Reported(jsigs_verify_override(options.credential,
                 [suite |-> NoCryptosuite, purpose |-> assertionMethod,
                  verificationMethod |-> options.verificationMethod,
                  documentLoader |-> options.documentLoader]))

\* The result of vc.verify from the results of its passes.
Merged(presentationResult, credentialResults) ==
    [thrown |-> FALSE, error |-> presentationResult.error,
     verified |-> presentationResult.verified
                  /\ \A i \in 1..Len(credentialResults) : credentialResults[i].verified,
     presentationResult |-> presentationResult,
     credentialResults |-> credentialResults]

\* vc.verify({presentation, challenge, presentationVerificationMethod,
\* credentialVerificationMethod}): the content pass for every embedded
\* credential and the envelope pass, each reported, and their conjunction.
vc_verify(options) ==
    Merged(Reported(jsigs_verify_override(options.presentation,
                        [suite |-> NoCryptosuite,
                         purpose |-> authentication(options.challenge),
                         verificationMethod |->
                             options.presentationVerificationMethod,
                         documentLoader |-> options.documentLoader])),
           [i \in 1..Len(options.presentation.verifiableCredential) |->
               vc_verifyCredential(
                   [credential |-> options.presentation.verifiableCredential[i],
                    verificationMethod |-> options.credentialVerificationMethod,
                    documentLoader |-> options.documentLoader])])

(***************************************************************************)
(* lib/browser.js: the exported operations                                 *)
(***************************************************************************)
\* issueCredential once the suite has been made (or has failed to be).
issueCredential_suite(options, suite) ==
    IF suite.err # ""
    THEN [err |-> suite.err, credential |-> options.credential, document |-> NoDoc]
    ELSE vc_issue([credential |-> [options.credential EXCEPT
                                      !.issuer = suite.verificationMethod],
                   suite |-> suite])

issueCredential(options) == issueCredential_suite(options, signer_suite(options))

\* vc.issue when loading the contexts of the credential came to `loaded`: the
\* credential is dated and checked, and signing it fails with the loader's error
\* or with a context that is no JSON object.
vc_issue_loaded(options, loaded) ==
    IF loaded.err # "" \/ ~Truthy(loaded.document)
    THEN [vc_issue(options) EXCEPT
             !.err = IF loaded.err # "" THEN loaded.err ELSE "jsonld.InvalidUrl",
             !.document = NoDoc]
    ELSE vc_issue(options)

\* A verifyCredential that does not hand the supplied verification method on.
verifyCredential_ownMethod(options) ==
    vc_verifyCredential([options EXCEPT !.verificationMethod = NoMethod])

verifyCredential(options) == vc_verifyCredential(options)

\* deriveCredential once the suite has been made (or has failed to be).
deriveCredential_suite(options, suite) ==
    IF suite.err # "" THEN [err |-> suite.err, document |-> NoDoc]
    ELSE vc_derive([verifiableCredential |-> options.verifiableCredential,
                    suite |-> suite])

deriveCredential(options) == deriveCredential_suite(options, derive_suite(options))

charset == <<"A", "B", "C", "D", "E", "F", "G", "H", "I", "J", "K", "L", "M",
             "N", "O", "P", "Q", "R", "S", "T", "U", "V", "W", "X", "Y", "Z",
             "a", "b", "c", "d", "e", "f", "g", "h", "i", "j", "k", "l", "m",
             "n", "o", "p", "q", "r", "s", "t", "u", "v", "w", "x", "y", "z",
             "0", "1", "2", "3", "4", "5", "6", "7", "8", "9">>

\* A generateRandomString whose loop stops one character early.
generateRandomString_short(length, array) ==
    [i \in 1..(length - 1) |-> charset[(array[i] % Len(charset)) + 1]]

\* generateRandomString(length), given the bytes crypto.getRandomValues drew.
generateRandomString(length, array) ==
    [i \in 1..length |-> charset[(array[i] % Len(charset)) + 1]]

\* The length signPresentation asks generateRandomString for.
ChallengeLength == 32

\* A signPresentation that signs the presentation the way a credential is
\* signed: for the assertionMethod purpose, with no challenge.
signPresentation_suite_asCredential(options, suite) ==
    IF suite.err # "" THEN [err |-> suite.err, document |-> NoDoc]
    ELSE [err |-> "",
          document |-> jsigs_sign([kind |-> "presentation",
                                   verifiableCredential |-> options.credential,
                                   foo |-> "", proof |-> NoProof],
                                  suite, assertionMethod)]

\* A signPresentation that presents only the first of the credentials it is given.
signPresentation_suite_first(options, suite) ==
    IF suite.err # "" THEN [err |-> suite.err, document |-> NoDoc]
    ELSE vc_signPresentation(
             [presentation |-> [kind |-> "presentation",
                                verifiableCredential |-> SubSeq(options.credential, 1, 1),
                                foo |-> "", proof |-> NoProof],
              suite |-> suite,
              challenge |-> IF options.challenge = <<>>
                            THEN generateRandomString(ChallengeLength, options.random)
                            ELSE options.challenge])

\* signPresentation once the suite has been made (or has failed to be).
signPresentation_suite(options, suite) ==
    IF suite.err # "" THEN [err |-> suite.err, document |-> NoDoc]
    ELSE vc_signPresentation(
             [presentation |-> [kind |-> "presentation",
                                verifiableCredential |-> options.credential,
                                foo |-> "", proof |-> NoProof],
              suite |-> suite,
              challenge |-> IF options.challenge = <<>>
                            THEN generateRandomString(ChallengeLength, options.random)
                            ELSE options.challenge])

signPresentation(options) == signPresentation_suite(options, signer_suite(options))

\* verifyPresentation, had it handed the presentation to jsigs.verify alone: the
\* envelope pass is made, the embedded credentials are never looked at.
verifyPresentation_envelopeOnly(options) ==
    LET pass == Reported(jsigs_verify_override(options.presentation,
                    [suite |-> NoCryptosuite,
                     purpose |-> authentication(
                         IF options.challenge = <<>>
                         THEN options.presentation.proof.challenge
                         ELSE options.challenge),
                     verificationMethod |-> options.presentationVerificationMethod,
                     documentLoader |-> options.documentLoader]))
    IN [thrown |-> FALSE, error |-> pass.error, verified |-> pass.verified,
        presentationResult |-> pass, credentialResults |-> <<>>]

\* verifyPresentation, had it asked vc.verify to treat the presentation as
\* unsigned: only the embedded credentials are checked.
verifyPresentation_unsigned(options) ==
    LET embedded == options.presentation.verifiableCredential
        credentialResults ==
            [i \in 1..Len(embedded) |->
                vc_verifyCredential(
                    [credential |-> embedded[i],
                     verificationMethod |-> options.credentialVerificationMethod,
                     documentLoader |-> options.documentLoader])]
    IN [thrown |-> FALSE, error |-> "",
        verified |-> \A i \in 1..Len(embedded) : credentialResults[i].verified,
        presentationResult |-> NoPass,
        credentialResults |-> credentialResults]

\* A verifyPresentation that hands the caller's challenge on as it is, supplied
\* or not.
verifyPresentation_noDefault(options) ==
    IF options.challenge = <<>> /\ options.presentation.proof.type = "none"
    THEN [thrown |-> TRUE, error |-> "TypeError", verified |-> FALSE,
          presentationResult |-> NoPass, credentialResults |-> <<>>]
    ELSE vc_verify(options)

verifyPresentation(options) ==
    IF options.challenge = <<>> /\ options.presentation.proof.type = "none"
    THEN [thrown |-> TRUE, error |-> "TypeError", verified |-> FALSE,
          presentationResult |-> NoPass, credentialResults |-> <<>>]
    ELSE vc_verify([options EXCEPT
                       !.challenge = IF options.challenge = <<>>
                                     THEN options.presentation.proof.challenge
                                     ELSE options.challenge])

(***************************************************************************)
(* Alterations a holder or an attacker makes to a document it holds        *)
(***************************************************************************)
BodyAlterations == {"subject.add", "subject.change", "field.add"}

ProofAlterations == {"proof.cryptosuite.unknown", "proof.cryptosuite.inherited",
                     "proof.cryptosuite.other", "proof.verificationMethod",
                     "proof.created", "proof.challenge", "proof.proofValue"}

\* The alterations made to a credential inside a signed presentation.
EmbeddedAlterations == {"subject.change", "field.add"}

\* The document after one alteration; otherDid is the DID of another key.  The
\* alterations of a proof are made to a single proof, not to an array of proofs.
Alter(doc, kind, otherDid) ==
    IF doc.proof.type = "array" /\ kind \in ProofAlterations \cup {"proof.append"}
    THEN doc
    ELSE
        CASE kind = "subject.add" ->
               [doc EXCEPT !.credentialSubject =
                   [f \in DOMAIN doc.credentialSubject \cup {"foo"} |->
                       IF f = "foo" THEN "foo" ELSE doc.credentialSubject[f]]]
          [] kind = "subject.change" ->
               [doc EXCEPT !.credentialSubject =
                   [f \in DOMAIN doc.credentialSubject |->
                       IF f = "cat_name" THEN "jerry" ELSE doc.credentialSubject[f]]]
          [] kind = "field.add" -> [doc EXCEPT !.foo = "foo"]
          [] kind = "proof.cryptosuite.unknown" ->
               [doc EXCEPT !.proof.cryptosuite = "bogus-2020"]
          [] kind = "proof.cryptosuite.inherited" ->
               [doc EXCEPT !.proof.cryptosuite = "constructor"]
          [] kind = "proof.cryptosuite.other" ->
               [doc EXCEPT !.proof.cryptosuite =
                   IF doc.proof.cryptosuite = "ecdsa-2019" THEN "eddsa-2022"
                   ELSE "ecdsa-2019"]
          [] kind = "proof.verificationMethod" ->
               [doc EXCEPT !.proof.verificationMethod = otherDid]
          [] kind = "proof.created" -> [doc EXCEPT !.proof.created = "t1"]
          [] kind = "proof.challenge" -> [doc EXCEPT !.proof.challenge = <<"x">>]
          [] kind = "proof.proofValue" ->
               [doc EXCEPT !.proof.proofValue = [NoProofValue EXCEPT !.kind = "garbage"]]
          [] kind = "proof.append" ->
               [doc EXCEPT !.proof =
                   ProofArray(<<doc.proof,
                                [doc.proof EXCEPT
                                    !.proofValue = [NoProofValue EXCEPT !.kind = "garbage"]]>>)]

(***************************************************************************)
(* State machine                                                           *)
(***************************************************************************)
\* A call not made yet. called: the call has returned or thrown; pending: the
\* promise the call is suspended on ("": none); credential: the credential
\* the call was made with.
NoCall == [called |-> FALSE, pending |-> "", err |-> "",
           useSelectiveDisclosure |-> FALSE,
           mandatoryPointers |-> Absent, selectivePointers |-> Absent,
           credential |-> <<>>, embedded |-> <<>>, challenge |-> <<>>,
           random |-> <<>>, presented |-> <<>>]

NoCredResult == [called |-> FALSE, credential |-> NoDoc,
                 verificationMethod |-> NoMethod] @@ NoPass

NoPresResult == [called |-> FALSE, presentation |-> NoDoc, challenge |-> <<>>,
                 presentationVerificationMethod |-> NoMethod,
                 credentialVerificationMethod |-> NoMethod,
                 thrown |-> FALSE, error |-> "", verified |-> FALSE,
                 presentationResult |-> NoPass, credentialResults |-> <<>>]

\* The pointers the tests mark mandatory at issuance.
MandatoryPointerChoices == {Absent, {"/issuanceDate", "/issuer"}}

\* The pointers a holder selects at derivation.
SelectivePointerChoices == {{"/credentialSubject/dog_name"},
                            {"/credentialSubject/cat_name"}}

\* The issuer a caller sets on the credential before issuing it (<<>>: none).
IssuerChoices == {<<>>, <<"d", "i", "d", ":", "e", "x", ":", "1">>}

\* Challenges a caller supplies (<<>>: none supplied).
ChallengeChoices == {<<>>, <<"c">>}

\* Values of the bytes crypto.getRandomValues draws.
ByteSamples == {7, 255}

ProtocolInit ==
    /\ keys = <<>>
    /\ credential \in {[demo_credential EXCEPT !.issuer = i] : i \in IssuerChoices}
    /\ vc = NoDoc
    /\ dvc = NoDoc
    /\ vp = NoDoc
    /\ issued = NoDoc
    /\ signed = NoDoc
    /\ credResult = NoCredResult
    /\ presResult = NoPresResult
    /\ calls = [issue |-> NoCall, derive |-> NoCall, rederive |-> NoCall,
                sign |-> NoCall]
    /\ tampers = 0

\* No call of the identity codec made yet.
NoParseResult == [called |-> FALSE, thrown |-> FALSE,
                  value |-> [didAuthority |-> <<>>, keyIdFragment |-> <<>>,
                             publicKeyMultibase |-> <<>>]]

\* No call of getKeyPair made yet.
NoKeyPairResult == [called |-> FALSE, err |-> "", keyPair |-> NoKeyPair,
                    argument |-> DidString(<<>>)]

\* The callers of documentLoader that can be suspended at the same time.
Callers == {1, 2}

\* A caller that has made no documentLoader call yet. cached: contexts[url] when
\* the call was made; fetched: the call went to the network; body: what
\* response.json() gave the call.
NoLoad == [pc |-> "idle", url |-> <<>>, made |-> 0, fetched |-> FALSE,
           cached |-> NoDocument, body |-> NoDocument, result |-> NoLoadResult]

\* A caller that has made no issueCredential call yet. pc: the promise the
\* call is suspended on, "done" once it has returned or thrown; credential:
\* the caller's credential when the call was made.
NoIssue == [pc |-> "idle", useSelectiveDisclosure |-> FALSE, credential |-> <<>>,
            err |-> "", document |-> NoDoc]

\* The store as lib/contexts/index.js builds it; the test adds the custom
\* context of the demo credential.
BuiltinContexts == [u \in Urls |-> IF u = BuiltinUrl THEN JsonObject("v1")
                                   ELSE NoDocument]
RegisteredContexts == [BuiltinContexts EXCEPT ![CustomUrl] = JsonObject("demo")]

CodecIdle ==
    /\ didString = <<>>
    /\ parseResult = NoParseResult
    /\ keyArgument = DidString(<<>>)
    /\ keyPairResult = NoKeyPairResult

LoaderIdle ==
    /\ contexts = RegisteredContexts
    /\ loads = [c \in Callers |-> NoLoad]
    /\ issues = [c \in Callers |-> NoIssue]

\* Nothing supplied and nothing drawn: the sign call takes its own inputs.
ChallengeIdle == drawn = [challenge |-> <<>>, bytes |-> <<>>]

Init ==
    /\ ProtocolInit
    /\ CodecIdle
    /\ LoaderIdle
    /\ ChallengeIdle

\* No verification has been made yet: the documents are still being prepared.
Preparing == ~credResult.called /\ ~presResult.called

IssuerKey == keys[1]
HolderKey == keys[2]

Generate(type) ==
    /\ Len(keys) < Len(Roles)
    /\ keys' = Append(keys, generate(type, Len(keys) + 1))
    /\ UNCHANGED <<credential, vc, dvc, vp, issued, signed, credResult, presResult,
                   calls, tampers>>
    /\ UNCHANGED <<codecVars, loaderVars, challengeVars>>

\* issueCredential({credential, key, useSelectiveDisclosure, mandatoryPointers})
\* is called with the issuer's key: the call is suspended on signer_suite.
IssueCredential(useSelectiveDisclosure, mandatoryPointers) ==
    /\ Len(keys) >= 1
    /\ Preparing
    /\ vc.kind = "none"
    /\ ~calls.issue.called
    /\ calls.issue.pending = ""
    /\ calls' = [calls EXCEPT !.issue =
           [NoCall EXCEPT !.pending = "signer_suite",
                          !.useSelectiveDisclosure = useSelectiveDisclosure,
                          !.mandatoryPointers = mandatoryPointers,
                          !.credential = credential]]
    /\ UNCHANGED <<keys, credential, vc, dvc, vp, issued, signed, credResult,
                   presResult, tampers>>
    /\ UNCHANGED <<codecVars, loaderVars, challengeVars>>

\* The options of the issueCredential call that is under way; the credential
\* is the caller's object as it is now.
IssueOptions ==
    [credential |-> credential, key |-> KeyObject(IssuerKey),
     useSelectiveDisclosure |-> calls.issue.useSelectiveDisclosure,
     mandatoryPointers |-> calls.issue.mandatoryPointers]

\* signer_suite has settled: the call throws, or it writes the issuer on the
\* caller's credential and calls vc.issue, which dates the credential, and the
\* call is suspended again.
IssueStamp ==
    /\ calls.issue.pending = "signer_suite"
    /\ credential' = issueCredential(IssueOptions).credential
    /\ calls' = [calls EXCEPT !.issue =
           IF signer_suite(IssueOptions).err # ""
           THEN [@ EXCEPT !.called = TRUE, !.pending = "",
                          !.err = signer_suite(IssueOptions).err]
           ELSE [@ EXCEPT !.pending = "vc.issue"]]
    /\ UNCHANGED <<keys, vc, dvc, vp, issued, signed, credResult, presResult,
                   tampers>>
    /\ UNCHANGED <<codecVars, loaderVars, challengeVars>>

\* vc.issue has settled: the call returns the credential, as the caller's
\* object is now, with its proof.
IssueReturn ==
    /\ calls.issue.pending = "vc.issue"
    /\ vc' = vc_issue([credential |-> credential,
                       suite |-> signer_suite(IssueOptions)]).document
    /\ issued' = vc'
    /\ calls' = [calls EXCEPT !.issue.called = TRUE, !.issue.pending = ""]
    /\ UNCHANGED <<keys, credential, dvc, vp, signed, credResult, presResult,
                   tampers>>
    /\ UNCHANGED <<codecVars, loaderVars, challengeVars>>

\* The credential was issued from the demo credential as the tests have it, with
\* no issuer set: the documents that alterations are made to.
FromDemo == calls.issue.credential = demo_credential

TamperCredential(kind) ==
    /\ Preparing
    /\ FromDemo
    /\ vc.kind = "credential"
    /\ vp.kind = "none"
    /\ ~calls.derive.called
    /\ tampers < MaxTampers
    /\ kind = "proof.verificationMethod" => Len(keys) = Len(Roles)
    /\ vc' = Alter(vc, kind, IF Len(keys) = Len(Roles) THEN HolderKey.id ELSE <<>>)
    /\ vc' # vc
    /\ tampers' = tampers + 1
    /\ UNCHANGED <<keys, credential, dvc, vp, issued, signed, credResult, presResult,
                   calls>>
    /\ UNCHANGED <<codecVars, loaderVars, challengeVars>>

DeriveCredential(selectivePointers) ==
    /\ Preparing
    /\ vc.kind = "credential"
    /\ ~calls.derive.called
    /\ vp.kind = "none"
    /\ tampers = 0
    /\ LET r == deriveCredential([verifiableCredential |-> vc,
                                  selectivePointers |-> selectivePointers])
       IN /\ dvc' = r.document
          /\ calls' = [calls EXCEPT !.derive =
                 [NoCall EXCEPT !.called = TRUE, !.err = r.err,
                                !.selectivePointers = selectivePointers]]
    /\ UNCHANGED <<keys, credential, vc, vp, issued, signed, credResult, presResult,
                   tampers>>
    /\ UNCHANGED <<codecVars, loaderVars, challengeVars>>

\* deriveCredential called again, on the credential a derivation returned.
DeriveDerived(selectivePointers) ==
    /\ Preparing
    /\ dvc.kind = "credential"
    /\ ~calls.rederive.called
    /\ vp.kind = "none"
    /\ LET r == deriveCredential([verifiableCredential |-> dvc,
                                  selectivePointers |-> selectivePointers])
       IN calls' = [calls EXCEPT !.rederive =
                 [NoCall EXCEPT !.called = TRUE, !.err = r.err,
                                !.credential = r.document]]
    /\ UNCHANGED <<keys, credential, vc, dvc, vp, issued, signed, credResult,
                   presResult, tampers>>
    /\ UNCHANGED <<codecVars, loaderVars, challengeVars>>

\* The credential objects a holder can put in a presentation, by the variable
\* that holds each.
Embeddable ==
    IF dvc.kind = "credential" THEN {<<"dvc">>, <<"vc", "dvc">>} ELSE {<<"vc">>}

\* The credential objects as they are now.
Embedded(objects) ==
    [i \in 1..Len(objects) |-> IF objects[i] = "vc" THEN vc ELSE dvc]

\* signPresentation({credential, key, useSelectiveDisclosure, challenge}) is
\* called with the holder's key: the presentation is built around the caller's
\* credential objects and the call is suspended on signer_suite.
SignPresentation(embedded, useSelectiveDisclosure, challenge) ==
    /\ Len(keys) = Len(Roles)
    /\ Preparing
    /\ vc.kind = "credential"
    /\ vp.kind = "none"
    /\ calls.sign.pending = ""
    /\ calls' = [calls EXCEPT !.sign =
           [NoCall EXCEPT !.pending = "signer_suite",
                          !.useSelectiveDisclosure = useSelectiveDisclosure,
                          !.embedded = embedded,
                          !.challenge = challenge]]
    /\ UNCHANGED <<keys, credential, vc, dvc, vp, issued, signed, credResult,
                   presResult, tampers>>
    /\ UNCHANGED <<codecVars, loaderVars, challengeVars>>

\* The options of the signPresentation call that is under way; the presentation
\* holds the caller's credential objects, as they are now.
SignOptions ==
    [credential |-> Embedded(calls.sign.embedded), key |-> KeyObject(HolderKey),
     useSelectiveDisclosure |-> calls.sign.useSelectiveDisclosure,
     mandatoryPointers |-> Absent,
     challenge |-> calls.sign.challenge, random |-> calls.sign.random]

\* signer_suite has settled: the call throws, or it draws a challenge where
\* none was supplied (crypto.getRandomValues filling its array with `random`)
\* and calls vc.signPresentation, and the call is suspended again.
SignChallenge(random) ==
    /\ calls.sign.pending = "signer_suite"
    /\ calls' = [calls EXCEPT !.sign =
           IF signer_suite(SignOptions).err # ""
           THEN [@ EXCEPT !.called = TRUE, !.pending = "",
                          !.err = signer_suite(SignOptions).err,
                          !.presented = Embedded(calls.sign.embedded)]
           ELSE [@ EXCEPT !.pending = "vc.signPresentation",
                          !.random = IF calls.sign.challenge = <<>>
                                     THEN random ELSE <<>>]]
    /\ UNCHANGED <<keys, credential, vc, dvc, vp, issued, signed, credResult,
                   presResult, tampers>>
    /\ UNCHANGED <<codecVars, loaderVars, challengeVars>>

\* vc.signPresentation has settled: the call returns the presentation, which
\* holds the caller's credential objects as they are now, with its proof.
SignReturn ==
    /\ calls.sign.pending = "vc.signPresentation"
    /\ vp' = signPresentation(SignOptions).document
    /\ signed' = vp'
    /\ calls' = [calls EXCEPT !.sign.called = TRUE, !.sign.pending = "",
                              !.sign.err = signPresentation(SignOptions).err,
                              !.sign.presented = Embedded(calls.sign.embedded)]
    /\ UNCHANGED <<keys, credential, vc, dvc, issued, credResult, presResult,
                   tampers>>
    /\ UNCHANGED <<codecVars, loaderVars, challengeVars>>

TamperPresentation(kind) ==
    /\ Preparing
    /\ FromDemo
    /\ vp.kind = "presentation"
    /\ tampers < MaxTampers
    /\ vp' = Alter(vp, kind, IssuerKey.id)
    /\ vp' # vp
    /\ tampers' = tampers + 1
    /\ UNCHANGED <<keys, credential, vc, dvc, issued, signed, credResult, presResult,
                   calls>>
    /\ UNCHANGED <<codecVars, loaderVars, challengeVars>>

TamperEmbedded(i, kind) ==
    /\ Preparing
    /\ FromDemo
    /\ vp.kind = "presentation"
    /\ tampers < MaxTampers
    /\ i \in 1..Len(vp.verifiableCredential)
    /\ vp' = [vp EXCEPT !.verifiableCredential[i] =
                 Alter(vp.verifiableCredential[i], kind, HolderKey.id)]
    /\ vp' # vp
    /\ tampers' = tampers + 1
    /\ UNCHANGED <<keys, credential, vc, dvc, issued, signed, credResult, presResult,
                   calls>>
    /\ UNCHANGED <<codecVars, loaderVars, challengeVars>>

\* The verification methods a verifier supplies: none, the signer's DID, the
\* signer's key object, or the DID of the other key.
MethodChoices(signer, other) ==
    {NoMethod, DidString(signer.id), KeyObject(signer), DidString(other.id)}

\* A verification method is supplied for documents nobody altered.
VerifyCredential(doc, verificationMethod) ==
    /\ Preparing
    /\ doc.kind = "credential"
    /\ verificationMethod # NoMethod => tampers = 0
    /\ credResult' = [called |-> TRUE, credential |-> doc,
                      verificationMethod |-> verificationMethod]
                     @@ verifyCredential([credential |-> doc,
                                          verificationMethod |-> verificationMethod,
                                          documentLoader |-> Loader(contexts, Offline)])
    /\ UNCHANGED <<keys, credential, vc, dvc, vp, issued, signed, presResult, calls,
                   tampers>>
    /\ UNCHANGED <<codecVars, loaderVars, challengeVars>>

VerifyPresentation(challenge, presentationMethod, credentialMethod) ==
    /\ Preparing
    /\ vp.kind = "presentation"
    /\ (presentationMethod # NoMethod \/ credentialMethod # NoMethod) => tampers = 0
    /\ presResult' = [called |-> TRUE, presentation |-> vp, challenge |-> challenge,
                      presentationVerificationMethod |-> presentationMethod,
                      credentialVerificationMethod |-> credentialMethod]
                     @@ verifyPresentation(
                            [presentation |-> vp, challenge |-> challenge,
                             presentationVerificationMethod |-> presentationMethod,
                             credentialVerificationMethod |-> credentialMethod,
                             documentLoader |-> Loader(contexts, Offline)])
    /\ UNCHANGED <<keys, credential, vc, dvc, vp, issued, signed, credResult, calls,
                   tampers>>
    /\ UNCHANGED <<codecVars, loaderVars, challengeVars>>

\* The methods a verifier can supply for the issuer's and for the holder's proof.
IssuerMethods ==
    IF Len(keys) = Len(Roles) THEN MethodChoices(IssuerKey, HolderKey)
    ELSE IF Len(keys) >= 1
    THEN {NoMethod, DidString(IssuerKey.id), KeyObject(IssuerKey)}
    ELSE {NoMethod}

HolderMethods ==
    IF Len(keys) = Len(Roles) THEN MethodChoices(HolderKey, IssuerKey) ELSE {NoMethod}

Next ==
    \/ \E type \in generaters : Generate(type)
    \/ \E sd \in BOOLEAN, mp \in MandatoryPointerChoices : IssueCredential(sd, mp)
    \/ IssueStamp
    \/ IssueReturn
    \/ \E kind \in BodyAlterations \cup ProofAlterations \cup {"proof.append"} :
          TamperCredential(kind)
    \/ \E sel \in SelectivePointerChoices : DeriveCredential(sel)
    \/ \E sel \in SelectivePointerChoices : DeriveDerived(sel)
    \/ \E e \in Embeddable, sd \in BOOLEAN, c \in ChallengeChoices :
          SignPresentation(e, sd, c)
    \/ \E b \in ByteSamples : SignChallenge([i \in 1..ChallengeLength |-> b])
    \/ SignReturn
    \/ \E kind \in {"field.add"} \cup ProofAlterations : TamperPresentation(kind)
    \/ \E i \in 1..2, kind \in EmbeddedAlterations : TamperEmbedded(i, kind)
    \/ \E doc \in {vc, dvc}, m \in IssuerMethods : VerifyCredential(doc, m)
    \/ \E c \in ChallengeChoices, pm \in HolderMethods, cm \in IssuerMethods :
          VerifyPresentation(c, pm, cm)

Spec == Init /\ [][Next]_vars

(***************************************************************************)
(* The identity codec on its own: parseDid applied to DID strings          *)
(***************************************************************************)
\* What a DID string starts with: the did:key prefix, another method's prefix,
\* a cut-off prefix, nothing, the prefix in capitals.
DidSchemes == {DidKeyPrefix,
               <<"d", "i", "d", ":", "w", "e", "b", ":">>,
               <<"d", "i", "d", ":", "k", "e">>,
               <<>>,
               <<"D", "I", "D", ":", "K", "E", "Y", ":">>}

\* What follows the prefix: nothing, the multibase of a generated key, a host.
DidBodies == {<<>>, HeaderOf("P-256") \o KeyBody(1), HeaderOf("Ed25519") \o KeyBody(2),
              <<"e", "x", "a", "m", "p", "l", "e", ".", "c", "o", "m">>}

\* What follows the authority: nothing, or '#' and a fragment.
DidFragments == {<<>>, <<"#">>, <<"#", "k", "e", "y", "-", "1">>,
                 <<"#">> \o HeaderOf("P-256") \o KeyBody(1),
                 <<"#", "a", "#", "b">>}

DidInputs == {s \o b \o f : s \in DidSchemes, b \in DidBodies, f \in DidFragments}

\* The publicKeyMultibase a caller's key object holds: none, the one its id
\* encodes, or the one of another key (of a supported or an unsupported header).
ObjectMultibases(did) ==
    {<<>>, parseDid(did).publicKeyMultibase, HeaderOf("SM2") \o KeyBody(2),
     <<"z", "Q", "3", "s">>}

\* What getKeyPair is called with for a DID: the DID string itself, a key object
\* with that id (with or without its secret key), or a number.
KeyArguments(did) ==
    {DidString(did), [typeof |-> "number", obj |-> NoKey, str |-> <<>>]}
    \cup {KeyObject([id |-> did, controller |-> SplitHead(did),
                     publicKeyMultibase |-> m, secretKeyMultibase |-> <<>>]) :
              m \in ObjectMultibases(did)}
    \cup {KeyObject([id |-> did, controller |-> SplitHead(did),
                     publicKeyMultibase |-> m, secretKeyMultibase |-> <<"s">> \o m]) :
              m \in ObjectMultibases(did)}

CodecInit ==
    /\ ProtocolInit
    /\ didString \in DidInputs
    /\ parseResult = NoParseResult
    /\ keyArgument \in KeyArguments(didString)
    /\ keyPairResult = NoKeyPairResult
    /\ LoaderIdle
    /\ ChallengeIdle

\* parseDid(did): it has no throw statement, and split and substring return a
\* value for every string.
ParseDid ==
    /\ ~parseResult.called
    /\ parseResult' = [called |-> TRUE, thrown |-> FALSE,
                       value |-> parseDid(didString)]
    /\ UNCHANGED <<didString, keyArgument, keyPairResult>>
    /\ UNCHANGED <<protocolVars, loaderVars, challengeVars>>

\* getKeyPair(keyArgument): the key pair or the error, the argument as it was
\* passed, and the caller's argument as the call leaves it.
GetKeyPair ==
    /\ ~keyPairResult.called
    /\ keyPairResult' = [called |-> TRUE, err |-> getKeyPair(keyArgument).err,
                         keyPair |-> getKeyPair(keyArgument).keyPair,
                         argument |-> keyArgument]
    /\ keyArgument' = getKeyPair_argument(keyArgument)
    /\ UNCHANGED <<didString, parseResult>>
    /\ UNCHANGED <<protocolVars, loaderVars, challengeVars>>

CodecNext == ParseDid \/ GetKeyPair

CodecSpec == CodecInit /\ [][CodecNext]_vars

(***************************************************************************)
(* Concurrent callers: documentLoader calls, the context store and the     *)
(* network, and issueCredential calls on one credential object             *)
(***************************************************************************)
\* The calls each caller makes one after another, an issueCredential call
\* counting for the documentLoader call it makes.
MaxLoads == 1

\* Each caller has a key of its own: the first of a family with selective
\* disclosure, the second of one without. Both hold the same credential
\* object. The custom context is registered in the store or it is not.
LoaderInit ==
    /\ keys = <<generate("P-256", 1), generate("Ed25519", 2)>>
    /\ credential = demo_credential
    /\ vc = NoDoc /\ dvc = NoDoc /\ vp = NoDoc /\ issued = NoDoc /\ signed = NoDoc
    /\ credResult = NoCredResult
    /\ presResult = NoPresResult
    /\ calls = [issue |-> NoCall, derive |-> NoCall, rederive |-> NoCall,
                sign |-> NoCall]
    /\ tampers = 0
    /\ CodecIdle
    /\ ChallengeIdle
    /\ contexts \in {BuiltinContexts, RegisteredContexts}
    /\ loads = [c \in Callers |-> NoLoad]
    /\ issues = [c \in Callers |-> NoIssue]

\* The call of documentLoader(url) by c, up to its return, its throw or its
\* call of fetch, on which it is suspended.
Loading(c, url) ==
    [pc |-> IF documentLoader_fetches(contexts, url) THEN "fetch" ELSE "done",
     url |-> url, made |-> loads[c].made + 1,
     fetched |-> documentLoader_fetches(contexts, url),
     cached |-> contexts_get(contexts, url), body |-> NoDocument,
     result |-> IF documentLoader_fetches(contexts, url) THEN NoLoadResult
                ELSE [err |-> documentLoader_local(contexts, url).err,
                      document |-> documentLoader_local(contexts, url).document]]

\* A caller that has no call under way calls documentLoader(url).
Load(c, url) ==
    /\ loads[c].pc \in {"idle", "done"}
    /\ issues[c].pc \in {"idle", "done"}
    /\ loads[c].made < MaxLoads
    /\ loads' = [loads EXCEPT ![c] = Loading(c, url)]
    /\ UNCHANGED <<contexts, issues>>
    /\ UNCHANGED <<protocolVars, codecVars, challengeVars>>

\* The fetch of a suspended call settles: the call throws, or goes on to await
\* response.json().
Respond(c, status) ==
    /\ loads[c].pc = "fetch"
    /\ loads' = [loads EXCEPT ![c] =
           IF status = "ok" THEN [@ EXCEPT !.pc = "json"]
           ELSE [@ EXCEPT !.pc = "done",
                          !.result.err = documentLoader_fetch(contexts, @.url,
                                             [status |-> status, body |-> NoDocument]).err]]
    /\ UNCHANGED <<contexts, issues>>
    /\ UNCHANGED <<protocolVars, codecVars, challengeVars>>

\* response.json() settles: the document is written to the store and returned,
\* or the call throws.
Json(c, body) ==
    /\ loads[c].pc = "json"
    /\ LET r == documentLoader_fetch(contexts, loads[c].url,
                                     [status |-> "ok", body |-> body])
       IN /\ loads' = [loads EXCEPT ![c].pc = "done", ![c].body = body,
                                     ![c].result.err = r.err,
                                     ![c].result.document = r.document]
          /\ contexts' = r.contexts
    /\ UNCHANGED issues
    /\ UNCHANGED <<protocolVars, codecVars, challengeVars>>

\* The options of the issueCredential call of c: its own key, and the credential
\* object every caller holds, as it is now.
IssueOptionsOf(c) ==
    [credential |-> credential, key |-> KeyObject(keys[c]),
     useSelectiveDisclosure |-> issues[c].useSelectiveDisclosure,
     mandatoryPointers |-> Absent]

\* A caller that has no call under way calls issueCredential({credential, key,
\* useSelectiveDisclosure}): the call is suspended on signer_suite.
Issue(c, useSelectiveDisclosure) ==
    /\ issues[c].pc = "idle"
    /\ loads[c].pc \in {"idle", "done"}
    /\ loads[c].made < MaxLoads
    /\ issues' = [issues EXCEPT ![c] =
           [NoIssue EXCEPT !.pc = "signer_suite",
                           !.useSelectiveDisclosure = useSelectiveDisclosure,
                           !.credential = credential]]
    /\ UNCHANGED <<contexts, loads>>
    /\ UNCHANGED <<protocolVars, codecVars, challengeVars>>

\* signer_suite has settled: the call throws, or it writes the issuer on the
\* credential object and calls vc.issue, which dates the credential, and the
\* call is suspended again.
Stamp(c) ==
    /\ issues[c].pc = "signer_suite"
    /\ credential' = issueCredential(IssueOptionsOf(c)).credential
    /\ issues' = [issues EXCEPT ![c] =
           IF signer_suite(IssueOptionsOf(c)).err # ""
           THEN [@ EXCEPT !.pc = "done", !.err = signer_suite(IssueOptionsOf(c)).err]
           ELSE [@ EXCEPT !.pc = "vc.issue"]]
    /\ UNCHANGED <<contexts, loads>>
    /\ UNCHANGED <<keys, vc, dvc, vp, issued, signed, credResult, presResult, calls,
                   tampers>>
    /\ UNCHANGED <<codecVars, challengeVars>>

\* vc.issue has the custom context of the credential loaded: it calls the
\* documentLoader of the options.
IssueLoad(c) ==
    /\ issues[c].pc = "vc.issue"
    /\ loads' = [loads EXCEPT ![c] = Loading(c, CustomUrl)]
    /\ issues' = [issues EXCEPT ![c].pc = "documentLoader"]
    /\ UNCHANGED contexts
    /\ UNCHANGED <<protocolVars, codecVars, challengeVars>>

\* The documentLoader call of vc.issue has settled: issueCredential throws, or
\* returns the credential, as the object is now, with the proof of its key.
IssueSettle(c) ==
    /\ issues[c].pc = "documentLoader"
    /\ loads[c].pc = "done"
    /\ LET r == vc_issue_loaded([credential |-> credential,
                                 suite |-> signer_suite(IssueOptionsOf(c))],
                                loads[c].result)
       IN issues' = [issues EXCEPT ![c].pc = "done", ![c].err = r.err,
                                   ![c].document = r.document]
    /\ UNCHANGED <<contexts, loads>>
    /\ UNCHANGED <<protocolVars, codecVars, challengeVars>>

LoaderNext ==
    \/ \E c \in Callers, url \in Urls : Load(c, url)
    \/ \E c \in Callers, status \in {o.status : o \in FetchOutcomes} : Respond(c, status)
    \/ \E c \in Callers, body \in Bodies : Json(c, body)
    \/ \E c \in Callers, sd \in BOOLEAN : Issue(c, sd)
    \/ \E c \in Callers : Stamp(c)
    \/ \E c \in Callers : IssueLoad(c)
    \/ \E c \in Callers : IssueSettle(c)

LoaderSpec == LoaderInit /\ [][LoaderNext]_vars

(***************************************************************************)
(* Challenges: signPresentation over the bytes the random source can draw  *)
(***************************************************************************)
\* A Uint8Array holds values below 256.
ByteRange == 256

\* Arrays of ChallengeLength bytes: every byte value in first place, followed
\* by the same value throughout or by values three apart.
ByteArrays ==
    {[i \in 1..ChallengeLength |-> (b + (i - 1) * k) % ByteRange] :
        b \in 0..(ByteRange - 1), k \in {0, 3}}

\* A credential has been issued with a P-256 key, the holder has a P-256 or an
\* SM2 key, and the challenge and the random bytes of the sign call are drawn.
ChallengeInit ==
    /\ keys \in {<<generate("P-256", 1), generate(t, 2)>> : t \in {"P-256", "SM2"}}
    /\ credential = issueCredential([credential |-> demo_credential,
                                     key |-> KeyObject(generate("P-256", 1)),
                                     useSelectiveDisclosure |-> FALSE,
                                     mandatoryPointers |-> Absent]).credential
    /\ vc = issueCredential([credential |-> demo_credential,
                             key |-> KeyObject(generate("P-256", 1)),
                             useSelectiveDisclosure |-> FALSE,
                             mandatoryPointers |-> Absent]).document
    /\ issued = vc
    /\ dvc = NoDoc /\ vp = NoDoc /\ signed = NoDoc
    /\ credResult = NoCredResult
    /\ presResult = NoPresResult
    /\ calls = [issue |-> [NoCall EXCEPT !.called = TRUE,
                                         !.credential = demo_credential],
                derive |-> NoCall, rederive |-> NoCall, sign |-> NoCall]
    /\ tampers = 0
    /\ CodecIdle
    /\ LoaderIdle
    /\ drawn \in [challenge : ChallengeChoices, bytes : ByteArrays]

\* signPresentation({credential: vc, key, challenge}) is called with the drawn
\* challenge.
SignDrawn ==
    /\ ~calls.sign.called
    /\ SignPresentation(<<"vc">>, FALSE, drawn.challenge)

\* The call of SignDrawn in the steps its awaits cut it into,
\* crypto.getRandomValues filling its array with the drawn bytes; the caller
\* may alter its credential object before the call, while it is suspended or
\* not at all.
ChallengeNext ==
    \/ SignDrawn
    \/ SignChallenge(drawn.bytes)
    \/ SignReturn
    \/ \E kind \in BodyAlterations : TamperCredential(kind)

ChallengeSpec == ChallengeInit /\ [][ChallengeNext]_vars

(***************************************************************************)
(* Properties                                                              *)
(***************************************************************************)
\* The key type of a generated key.
TypeOf(key) == AlgorithmOf(slice0(key.publicKeyMultibase, 3))

\* The key types whose suite signs without selective disclosure.
PlainTypes == {"P-256", "P-384", "P-521", "SM2", "Ed25519"}

\* A credential that verifies as it stands.
Valid(doc) ==
    verifyCredential([credential |-> doc, verificationMethod |-> NoMethod,
                      documentLoader |-> Loader(contexts, Offline)]).verified

\* verifyCredential was called on exactly what issueCredential returned, with no
\* verification method supplied.
VerifiedUnmodified ==
    /\ credResult.called
    /\ issued.kind = "credential"
    /\ credResult.credential = issued
    /\ credResult.verificationMethod = NoMethod

\* What the round trip promises of a verifyCredential result.
RoundTripOutcome ==
    /\ ~credResult.thrown
    /\ credResult.verified
    /\ Len(credResult.results) >= 1
    /\ credResult.results[1].verified
    /\ credResult.results[1].verificationMethod.id = IssuerKey.id

\* C1 as stated: for every supported key family, issueCredential with a generated
\* key (called as the tests call it, with no selective-disclosure option) returns
\* a credential, and verifyCredential on the unmodified result returns verified =
\* true, results[0].verified = true and results[0].verificationMethod.id = key.id.
C1_RoundTripEveryFamily ==
    (calls.issue.called /\ ~calls.issue.useSelectiveDisclosure
        /\ calls.issue.mandatoryPointers = Absent)
    => /\ calls.issue.err = ""
       /\ VerifiedUnmodified => RoundTripOutcome

\* C1 amended: for every key family other than BLS12-381 (P-256, P-384, P-521,
\* SM2, Ed25519), issueCredential with a generated key and without
\* useSelectiveDisclosure returns a credential, and verifyCredential on the
\* unmodified result returns verified = true, results[0].verified = true and
\* results[0].verificationMethod.id equal to the issuing key's id.
C1_RoundTripPlainFamilies ==
    (calls.issue.called /\ ~calls.issue.useSelectiveDisclosure
        /\ TypeOf(IssuerKey) \in PlainTypes)
    => /\ calls.issue.err = ""
       /\ VerifiedUnmodified => RoundTripOutcome

C1_Witness ==
    /\ calls.issue.called
    /\ ~calls.issue.useSelectiveDisclosure
    /\ TypeOf(IssuerKey) = "P-521"
    /\ VerifiedUnmodified
    /\ RoundTripOutcome

\* verifyCredential was called on the issued credential with its credentialSubject
\* changed or extended and its proof left as issued.
VerifiedSubjectTampered ==
    /\ credResult.called
    /\ issued.kind = "credential"
    /\ credResult.credential.proof = issued.proof
    /\ credResult.credential.credentialSubject # issued.credentialSubject

\* C2: for every key family, changing or adding a field of credentialSubject on an
\* issued credential makes verifyCredential return (not throw) a result with
\* verified = false and results[0].verified = false.
C2_TamperDetected ==
    VerifiedSubjectTampered
    => /\ ~credResult.thrown
       /\ ~credResult.verified
       /\ Len(credResult.results) >= 1
       /\ ~credResult.results[1].verified

C2_Witness ==
    /\ VerifiedSubjectTampered
    /\ TypeOf(IssuerKey) = "Ed25519"
    /\ "foo" \in DOMAIN credResult.credential.credentialSubject
    /\ ~credResult.thrown
    /\ ~credResult.verified

\* Every credential in the presentation signPresentation had built verified as
\* it stood when the call signed or threw.
EmbeddedValid ==
    \A i \in 1..Len(calls.sign.presented) : Valid(calls.sign.presented[i])

\* verifyPresentation was called on exactly what signPresentation returned, with
\* no challenge of the caller's own or with the challenge that was signed, and
\* with no verification method supplied.
VerifiedUnmodifiedPresentation ==
    /\ presResult.called
    /\ signed.kind = "presentation"
    /\ presResult.presentation = signed
    /\ presResult.challenge \in {<<>>, signed.proof.challenge}
    /\ presResult.presentationVerificationMethod = NoMethod
    /\ presResult.credentialVerificationMethod = NoMethod

\* What composition promises of a verifyPresentation result.
CompositionOutcome ==
    /\ ~presResult.thrown
    /\ presResult.verified
    /\ Len(presResult.credentialResults) = Len(signed.verifiableCredential)
    /\ \A i \in 1..Len(presResult.credentialResults) :
          LET pass == presResult.credentialResults[i]
          IN /\ Len(pass.results) >= 1
             /\ pass.results[1].verified
             /\ pass.results[1].verificationMethod.id = IssuerKey.id
             /\ pass.suite = signed.verifiableCredential[i].proof.cryptosuite
    /\ Len(presResult.presentationResult.results) >= 1
    /\ presResult.presentationResult.results[1].verified
    /\ presResult.presentationResult.results[1].verificationMethod.id = HolderKey.id
    /\ presResult.presentationResult.suite = signed.proof.cryptosuite

\* C3 as stated: for every pair (issuer family, holder family), signPresentation
\* over a valid credential (called as the tests call it, with no
\* selective-disclosure option) returns a presentation, and verifyPresentation
\* returns verified = true, credentialResults[0].results[0] verified under the
\* issuer's id and presentationResult.results[0] verified under the holder's id,
\* each pass dispatched by its own proof.cryptosuite.
C3_CompositionEveryPair ==
    (calls.sign.called /\ ~calls.sign.useSelectiveDisclosure /\ EmbeddedValid)
    => /\ calls.sign.err = ""
       /\ VerifiedUnmodifiedPresentation => CompositionOutcome

\* C3 amended: for every issuer family and every holder family other than
\* BLS12-381, signPresentation without useSelectiveDisclosure over a valid
\* credential returns a presentation, and verifyPresentation returns verified =
\* true with credentialResults[0].results[0] verified under the issuer's id and
\* presentationResult.results[0] verified under the holder's id, each pass
\* dispatched to the verifier named by its own proof.cryptosuite.
C3_CompositionPlainHolder ==
    (calls.sign.called /\ ~calls.sign.useSelectiveDisclosure /\ EmbeddedValid
        /\ TypeOf(HolderKey) \in PlainTypes)
    => /\ calls.sign.err = ""
       /\ VerifiedUnmodifiedPresentation => CompositionOutcome

C3_Witness ==
    /\ calls.sign.called
    /\ ~calls.sign.useSelectiveDisclosure
    /\ EmbeddedValid
    /\ TypeOf(IssuerKey) = "Bls12381"
    /\ TypeOf(HolderKey) = "Ed25519"
    /\ VerifiedUnmodifiedPresentation
    /\ CompositionOutcome

\* verifyPresentation was called on the signed presentation with one top-level
\* field added and nothing else changed; the embedded credentials were valid.
VerifiedEnvelopeTampered ==
    /\ presResult.called
    /\ signed.kind = "presentation"
    /\ EmbeddedValid
    /\ presResult.presentation = [signed EXCEPT !.foo = "foo"]
    /\ presResult.presentation # signed

\* C4: adding a field directly on the signed presentation makes
\* presentationResult verified = false and the overall result false, while every
\* credentialResults entry stays verified = true with its verificationMethod.id
\* equal to the issuer's id.
C4_EnvelopeOnlyTamper ==
    VerifiedEnvelopeTampered
    => /\ ~presResult.thrown
       /\ ~presResult.verified
       /\ ~presResult.presentationResult.verified
       /\ Len(presResult.credentialResults) = Len(signed.verifiableCredential)
       /\ \A i \in 1..Len(presResult.credentialResults) :
             LET pass == presResult.credentialResults[i]
             IN /\ pass.verified
                /\ Len(pass.results) >= 1
                /\ pass.results[1].verified
                /\ pass.results[1].verificationMethod.id = IssuerKey.id

C4_Witness ==
    /\ VerifiedEnvelopeTampered
    /\ TypeOf(IssuerKey) = "P-256"
    /\ TypeOf(HolderKey) = "SM2"
    /\ ~presResult.verified
    /\ ~presResult.presentationResult.verified
    /\ presResult.credentialResults[1].verified

\* The positions of the credentials embedded in the signed presentation.
SignedEmbedded ==
    IF signed.kind = "presentation" THEN 1..Len(signed.verifiableCredential) ELSE {}

\* The signed presentation with its i-th embedded credential altered.
WithEmbedded(i, kind) ==
    [signed EXCEPT !.verifiableCredential[i] =
        Alter(signed.verifiableCredential[i], kind, HolderKey.id)]

\* verifyPresentation was called on the signed presentation whose i-th embedded
\* credential was altered after signing.
VerifiedEmbeddedTampered(i, kind) ==
    /\ presResult.called
    /\ i \in SignedEmbedded
    /\ presResult.presentation = WithEmbedded(i, kind)
    /\ presResult.presentation # signed

\* The presentation verified as signPresentation returned it.
SignedValid ==
    /\ signed.kind = "presentation"
    /\ verifyPresentation([presentation |-> signed, challenge |-> <<>>,
                           presentationVerificationMethod |-> NoMethod,
                           credentialVerificationMethod |-> NoMethod,
                           documentLoader |-> Loader(contexts, Offline)]).verified

\* C5 as stated: mutating an embedded credential's subject after the presentation
\* is signed makes credentialResults[0].results[0].verified = false and the
\* overall verified = false, while presentationResult.verified stays true.
C5_EnvelopeStaysTrue ==
    \A i \in SignedEmbedded :
        (SignedValid /\ VerifiedEmbeddedTampered(i, "subject.change"))
        => /\ ~presResult.thrown
           /\ ~presResult.verified
           /\ Len(presResult.credentialResults) >= i
           /\ Len(presResult.credentialResults[i].results) >= 1
           /\ ~presResult.credentialResults[i].results[1].verified
           /\ presResult.presentationResult.verified

\* C5 amended: mutating an embedded credential's subject after a presentation
\* that verified is signed makes that credential's credentialResults entry
\* results[0].verified = false and the overall verified = false, and
\* presentationResult.verified is false as well, because the envelope proof
\* covers the embedded credential.
C5_EnvelopeFailsToo ==
    \A i \in SignedEmbedded :
        (VerifiedEmbeddedTampered(i, "subject.change") /\ SignedValid)
        => /\ ~presResult.thrown
           /\ ~presResult.verified
           /\ Len(presResult.credentialResults) >= i
           /\ Len(presResult.credentialResults[i].results) >= 1
           /\ ~presResult.credentialResults[i].results[1].verified
           /\ ~presResult.presentationResult.verified

C5_Witness ==
    /\ SignedValid
    /\ VerifiedEmbeddedTampered(1, "subject.change")
    /\ presResult.presentation.verifiableCredential[1].credentialSubject.cat_name
           = "jerry"
    /\ ~presResult.credentialResults[1].results[1].verified
    /\ ~presResult.presentationResult.verified

\* C6: adding a field to verifiablePresentation.verifiableCredential after a
\* presentation that verified is signed makes the overall result false, with
\* both credentialResults[0].results[0].verified and
\* presentationResult.results[0].verified false.
C6_EmbeddedFieldAdded ==
    \A i \in SignedEmbedded :
        (VerifiedEmbeddedTampered(i, "field.add") /\ SignedValid)
        => /\ ~presResult.thrown
           /\ ~presResult.verified
           /\ Len(presResult.credentialResults) >= i
           /\ Len(presResult.credentialResults[i].results) >= 1
           /\ ~presResult.credentialResults[i].results[1].verified
           /\ Len(presResult.presentationResult.results) >= 1
           /\ ~presResult.presentationResult.results[1].verified

C6_Witness ==
    /\ SignedValid
    /\ VerifiedEmbeddedTampered(1, "field.add")
    /\ presResult.presentation.verifiableCredential[1].foo = "foo"
    /\ TypeOf(IssuerKey) = "P-384"
    /\ ~presResult.verified
    /\ ~presResult.credentialResults[1].results[1].verified
    /\ ~presResult.presentationResult.results[1].verified

\* verifyCredential was called on the issued credential after it was altered.
VerifiedAlteredCredential ==
    /\ credResult.called
    /\ issued.kind = "credential"
    /\ credResult.credential = vc
    /\ vc # issued

\* verifyPresentation was called on the signed presentation after it, or a
\* credential in it, was altered.
VerifiedAlteredPresentation ==
    /\ presResult.called
    /\ signed.kind = "presentation"
    /\ presResult.presentation # signed

\* C8: for any alteration of a field a proof covers, in the body or in the proof
\* metadata (cryptosuite, verificationMethod, created, challenge, proofValue),
\* verifyCredential and verifyPresentation return a result whose affected proof
\* has verified = false; they do not throw.
C8_FailureIsData ==
    /\ VerifiedAlteredCredential
       => /\ ~credResult.thrown
          /\ ~credResult.verified
          /\ Len(credResult.results) >= 1
          /\ ~credResult.results[1].verified
    /\ VerifiedAlteredPresentation
       => /\ ~presResult.thrown
          /\ ~presResult.verified
          /\ Len(presResult.presentationResult.results) >= 1
          /\ ~presResult.presentationResult.results[1].verified
          /\ \A i \in 1..Len(presResult.credentialResults) :
                presResult.presentation.verifiableCredential[i]
                    # signed.verifiableCredential[i]
                => /\ Len(presResult.credentialResults[i].results) >= 1
                   /\ ~presResult.credentialResults[i].results[1].verified

\* The six cryptosuite names that have a verifier.
RegisteredNames == {"ecdsa-2019", "ecdsa-sd-2023", "eddsa-2022", "sm2-2023",
                    "sm2-sd-2023", "bbs-2023"}

\* A pass that failed closed: verification stopped with the 'Unsupported
\* cryptosuite' error, no verifier was selected and nothing verified.
FailedClosed(pass) ==
    /\ pass.error = "Unsupported cryptosuite"
    /\ pass.suite = ""
    /\ ~pass.verified
    /\ \A k \in 1..Len(pass.results) : ~pass.results[k].verified

\* The wrapper raises 'Unsupported cryptosuite' for the document and selects no
\* verifier.
Raises(document, purpose) ==
    LET pass == jsigs_verify_override(document,
                    [suite |-> NoCryptosuite, purpose |-> purpose,
                     verificationMethod |-> NoMethod,
                     documentLoader |-> Loader(contexts, Offline)])
    IN pass.thrown /\ pass.error = "Unsupported cryptosuite" /\ pass.suite = ""

\* C9: for every proof.cryptosuite name outside the six registered names,
\* verifying a document that carries that proof fails with an 'Unsupported
\* cryptosuite' error and no verifier is selected: the verification fails closed
\* and does not fall back to a default suite.
C9_UnknownCryptosuiteFailsClosed ==
    /\ (credResult.called
          /\ credResult.credential.proof.cryptosuite \notin RegisteredNames)
       => /\ Raises(credResult.credential, assertionMethod)
          /\ FailedClosed(credResult)
          /\ ~credResult.verified
    /\ presResult.called
       => /\ presResult.presentation.proof.cryptosuite \notin RegisteredNames
             => /\ Raises(presResult.presentation,
                          authentication(presResult.presentation.proof.challenge))
                /\ FailedClosed(presResult.presentationResult)
                /\ ~presResult.verified
          /\ \A i \in 1..Len(presResult.presentation.verifiableCredential) :
                presResult.presentation.verifiableCredential[i].proof.cryptosuite
                    \notin RegisteredNames
                => /\ Len(presResult.credentialResults) >= i
                   /\ FailedClosed(presResult.credentialResults[i])
                   /\ ~presResult.verified

\* C10 as stated: for a selective-disclosure-capable family (P-256, Bls12381), a
\* credential issued with mandatoryPointers ['/issuanceDate', '/issuer'] and
\* derived with selectivePointers ['/credentialSubject/dog_name'] yields a derived
\* credential whose issuer and issuanceDate equal the original's, whose
\* credentialSubject has dog_name and not cat_name, and which verifies with
\* results[0].verificationMethod.id equal to the issuer key's id.
C10_SubsetInvariant ==
    (calls.issue.called
        /\ calls.issue.mandatoryPointers = {"/issuanceDate", "/issuer"}
        /\ TypeOf(IssuerKey) \in {"P-256", "Bls12381"})
    => /\ calls.issue.err = ""
       /\ (calls.derive.called
              /\ calls.derive.selectivePointers = {"/credentialSubject/dog_name"})
          => /\ calls.derive.err = ""
             /\ dvc.issuer = issued.issuer
             /\ dvc.issuanceDate = issued.issuanceDate
             /\ "dog_name" \in DOMAIN dvc.credentialSubject
             /\ "cat_name" \notin DOMAIN dvc.credentialSubject
             /\ (credResult.called /\ credResult.credential = dvc)
                => /\ credResult.verified
                   /\ Len(credResult.results) >= 1
                   /\ credResult.results[1].verificationMethod.id = IssuerKey.id

(***************************************************************************)
(* Derivation, disclosure policies, issuer stamp, proof purposes, supplied *)
(* verification methods, proof arrays, parseDid                             *)
(***************************************************************************)
\* The cryptosuite names of the suites that sign every statement in one
\* signature and have no disclose counterpart.
PlainNames == {"ecdsa-2019", "eddsa-2022", "sm2-2023"}

\* C11: deriveCredential on a credential whose proof names a plain cryptosuite
\* ('ecdsa-2019', 'eddsa-2022', 'sm2-2023') fails with 'Unsupported cryptosuite'
\* and returns no credential.
C11_PlainNotDerivable ==
    (calls.derive.called /\ vc.proof.cryptosuite \in PlainNames)
        => (calls.derive.err = "Unsupported cryptosuite" /\ dvc = NoDoc)

C11_Witness ==
    /\ calls.derive.called
    /\ vc.proof.cryptosuite = "eddsa-2022"
    /\ calls.derive.err = "Unsupported cryptosuite"
    /\ dvc = NoDoc

\* C12 (as stated): in issue -> derive -> derive the second derive is rejected
\* by the cryptosuite-name check, the derived proof carrying a cryptosuite name
\* that differs from the issued one and is not in the derivation table.
C12_RejectedByNameCheck ==
    calls.rederive.called
        => /\ calls.rederive.err = "Unsupported cryptosuite"
           /\ dvc.proof.cryptosuite # issued.proof.cryptosuite

\* C12 (amended): the first derive of a credential whose proof is not a plain
\* one succeeds and its proof keeps the issued cryptosuite name; the second
\* derive passes the cryptosuite-name check and is rejected by the disclose
\* suite, which needs a base proof value; it returns no credential.
C12_RejectedByBaseProofCheck ==
    /\ (calls.derive.called /\ vc.proof.cryptosuite \notin PlainNames)
           => /\ calls.derive.err = ""
              /\ dvc.kind = "credential"
              /\ dvc.proof.cryptosuite = issued.proof.cryptosuite
              /\ dvc.proof.proofValue.kind = "derived"
    /\ calls.rederive.called
           => /\ derive_suite([verifiableCredential |-> dvc,
                               selectivePointers |-> Absent]).err = ""
              /\ calls.rederive.err = "proofValue must be a base proof"
              /\ calls.rederive.credential = NoDoc

C12_Witness ==
    /\ calls.rederive.called
    /\ dvc.proof.cryptosuite = "sm2-sd-2023"
    /\ calls.rederive.err = "proofValue must be a base proof"

\* C13 as stated: for a P-256 key, issueCredential selects the suite by the
\* presence of mandatoryPointers in the call: present, the issued proof's
\* cryptosuite is 'ecdsa-sd-2023' (and the credential can be derived from);
\* absent, it is 'ecdsa-2019'.  The calls considered pass mandatoryPointers or
\* nothing, as the tests do.
C13_OptionalByMandatoryPointers ==
    (calls.issue.called /\ TypeOf(IssuerKey) = "P-256"
        /\ ~calls.issue.useSelectiveDisclosure)
    => /\ calls.issue.err = ""
       /\ issued.proof.cryptosuite =
             (IF calls.issue.mandatoryPointers # Absent
              THEN "ecdsa-sd-2023" ELSE "ecdsa-2019")
       /\ (calls.issue.mandatoryPointers # Absent /\ calls.derive.called)
             => calls.derive.err = ""

\* C14 as stated: for a BLS12-381 key, issueCredential fails and produces no
\* credential when no selective-disclosure option is supplied, and succeeds with
\* a 'bbs-2023' proof when mandatoryPointers are supplied.
C14_RequiredByMandatoryPointers ==
    (calls.issue.called /\ TypeOf(IssuerKey) = "Bls12381")
    => /\ (calls.issue.mandatoryPointers = Absent
             /\ ~calls.issue.useSelectiveDisclosure)
          => (calls.issue.err # "" /\ issued = NoDoc)
       /\ calls.issue.mandatoryPointers # Absent
          => (calls.issue.err = "" /\ issued.proof.cryptosuite = "bbs-2023")

\* The families other than P-256 and BLS12-381.
ForbiddenTypes == {"P-384", "P-521", "SM2", "Ed25519"}

\* The call supplied a selective-disclosure option.
DisclosureAsked(call) == call.useSelectiveDisclosure \/ call.mandatoryPointers # Absent

\* C15: issueCredential and signPresentation with selective-disclosure options
\* supplied and a key of P-384, P-521, SM2 or Ed25519 fail with an error and
\* return no signed document.
C15_ForbiddenEveryOtherFamily ==
    /\ (calls.issue.called /\ DisclosureAsked(calls.issue)
           /\ TypeOf(IssuerKey) \in ForbiddenTypes)
          => (calls.issue.err # "" /\ issued = NoDoc)
    /\ (calls.sign.called /\ DisclosureAsked(calls.sign)
           /\ TypeOf(HolderKey) \in ForbiddenTypes)
          => (calls.sign.err # "" /\ signed = NoDoc)

\* C16: every credential issueCredential returns has as issuer the signing
\* suite's verification method, which is the id of the key the call was made
\* with: issuer = proof.verificationMethod = key.id.
C16_IssuerStamped ==
    \A c \in Callers :
        (issues[c].pc = "done" /\ issues[c].err = "")
        => /\ issues[c].document.proof.verificationMethod = keys[c].id
           /\ issues[c].document.issuer = keys[c].id

\* A call that no other call overlaps (the one caller of Spec): the credential
\* issueCredential returned has the key's id as issuer and as the proof's
\* verificationMethod, whatever issuer the caller had set before.
C16_StampedWhenAlone ==
    (calls.issue.called /\ calls.issue.err = "")
    => /\ issued.issuer = IssuerKey.id
       /\ issued.proof.verificationMethod = IssuerKey.id

\* C17: every proof issueCredential attaches has proofPurpose
\* 'assertionMethod'; every proof signPresentation attaches has proofPurpose
\* 'authentication' and the holder key's id as verificationMethod, for every
\* key family.
C17_ProofPurposes ==
    /\ (calls.issue.called /\ calls.issue.err = "")
          => issued.proof.proofPurpose = "assertionMethod"
    /\ (calls.sign.called /\ calls.sign.err = "")
          => /\ signed.proof.proofPurpose = "authentication"
             /\ signed.proof.verificationMethod = HolderKey.id

C17_Witness ==
    /\ calls.issue.called
    /\ calls.sign.called
    /\ TypeOf(IssuerKey) = "Ed25519"
    /\ TypeOf(HolderKey) = "SM2"
    /\ issued.proof.proofPurpose = "assertionMethod"
    /\ signed.proof.proofPurpose = "authentication"
    /\ signed.proof.verificationMethod = HolderKey.id

\* The DID of a supplied verification method (<<>>: none supplied).
SuppliedId(supplied) == MethodId([verificationMethod |-> <<>>], supplied)

\* The presentation that was verified, verified with no method supplied.
OwnMethodsResult ==
    verifyPresentation([presentation |-> presResult.presentation,
                        challenge |-> presResult.challenge,
                        presentationVerificationMethod |-> NoMethod,
                        credentialVerificationMethod |-> NoMethod,
                        documentLoader |-> Loader(contexts, Offline)])

\* C18: a supplied verification method (DID string or key object) replaces the
\* method the proof names.  verifyCredential checks against
\* options.verificationMethod; verifyPresentation checks the envelope against
\* presentationVerificationMethod and every embedded credential against
\* credentialVerificationMethod.  Supplying the signer's own method gives the
\* result the proof's method gives (verified = true for a valid document);
\* supplying another key's method gives verified = false.
C18_SuppliedMethodReplaces ==
    /\ (credResult.called /\ credResult.verificationMethod # NoMethod)
          => IF SuppliedId(credResult.verificationMethod) = IssuerKey.id
             THEN credResult.verified = Valid(credResult.credential)
             ELSE ~credResult.verified
    /\ (presResult.called /\ presResult.presentationVerificationMethod # NoMethod)
          => IF SuppliedId(presResult.presentationVerificationMethod) = HolderKey.id
             THEN presResult.presentationResult.verified
                      = OwnMethodsResult.presentationResult.verified
             ELSE ~presResult.presentationResult.verified /\ ~presResult.verified
    /\ (presResult.called /\ presResult.credentialVerificationMethod # NoMethod)
          => \A i \in 1..Len(presResult.credentialResults) :
                IF SuppliedId(presResult.credentialVerificationMethod) = IssuerKey.id
                THEN presResult.credentialResults[i].verified
                         = OwnMethodsResult.credentialResults[i].verified
                ELSE ~presResult.credentialResults[i].verified /\ ~presResult.verified

C18_Witness ==
    /\ presResult.called
    /\ presResult.presentationVerificationMethod = DidString(HolderKey.id)
    /\ presResult.credentialVerificationMethod = DidString(IssuerKey.id)
    /\ presResult.presentation.proof.verificationMethod = HolderKey.id
    /\ Len(presResult.credentialResults) = 1
    /\ presResult.credentialResults[1].verified
    /\ presResult.presentationResult.verified
    /\ presResult.verified

\* The credential with the k-th proof of its proof array as its only proof.
WithProof(doc, k) == [doc EXCEPT !.proof = doc.proof.set[k]]

\* C19 as stated: verifyCredential resolves a verifier for each proof of the
\* credential from that proof's own cryptosuite name and returns one results
\* entry per proof: a credential that carries one valid and one invalid proof
\* is reported with one verified = true entry and one verified = false entry.
C19_PerProofResults ==
    (credResult.called
        /\ credResult.credential.proof.type = "array"
        /\ Len(credResult.credential.proof.set) = 2
        /\ Valid(WithProof(credResult.credential, 1))
        /\ ~Valid(WithProof(credResult.credential, 2)))
    => /\ Len(credResult.results) = 2
       /\ \E k \in 1..Len(credResult.results) : credResult.results[k].verified
       /\ \E k \in 1..Len(credResult.results) : ~credResult.results[k].verified

\* C20 as stated (under CodecSpec): parseDid fails with a MalformedDid error for
\* every DID string whose authority, the text before '#', does not start with
\* 'did:key:'; it returns no publicKeyMultibase for such a string.
C20_MalformedDidRejected ==
    (parseResult.called /\ ~startsWith(SplitHead(didString), DidKeyPrefix))
        => (parseResult.thrown /\ parseResult.value = NoParseResult.value)

(***************************************************************************)
(* Identity codec, failure frames, document loading, challenges, wrapping, *)
(* registry consistency                                                    *)
(***************************************************************************)
\* A fragment appended to a DID.
KeyFragment == <<"#", "k", "e", "y", "-", "1">>

\* C21: for every key generate returns, of each supported type, id and
\* controller are identical and equal to 'did:key:' + publicKeyMultibase, and
\* parseDid(id).publicKeyMultibase is the key's publicKeyMultibase, also when a
\* '#fragment' is appended to the DID.
C21_KeyIdentityRoundTrip ==
    \A i \in 1..Len(keys) :
        /\ keys[i].id = keys[i].controller
        /\ keys[i].id = DidKeyPrefix \o keys[i].publicKeyMultibase
        /\ parseDid(keys[i].id).publicKeyMultibase = keys[i].publicKeyMultibase
        /\ parseDid(keys[i].id \o KeyFragment).publicKeyMultibase
               = keys[i].publicKeyMultibase
        /\ parseDid(keys[i].id \o KeyFragment).didAuthority = keys[i].id

C21_Witness ==
    /\ Len(keys) = 2
    /\ TypeOf(keys[1]) = "Bls12381"
    /\ TypeOf(keys[2]) = "SM2"
    /\ keys[2].id = DidKeyPrefix \o keys[2].publicKeyMultibase
    /\ parseDid(keys[1].id \o KeyFragment).publicKeyMultibase
           = keys[1].publicKeyMultibase

\* The caller's key object names a publicKeyMultibase other than its id encodes.
Mismatching(arg) ==
    /\ arg.typeof = "object"
    /\ arg.obj.publicKeyMultibase # <<>>
    /\ arg.obj.publicKeyMultibase # parseDid(arg.obj.id).publicKeyMultibase

\* C22: getKeyPair on a key object whose publicKeyMultibase differs from the one
\* its id encodes fails with 'Mismatched DID' and constructs no key pair (the
\* header of neither multibase is looked up); on a DID string of a supported
\* key family it returns a key pair with id the DID, controller the DID
\* authority, the publicKeyMultibase of the DID and no secret key; and the
\* caller's argument is after the call what it was before it.
C22_GetKeyPairContract ==
    keyPairResult.called =>
        /\ keyArgument = keyPairResult.argument
        /\ Mismatching(keyArgument) =>
               /\ keyPairResult.err = "Mismatched DID"
               /\ keyPairResult.keyPair = NoKeyPair
        /\ (keyArgument.typeof = "string" /\ keyPairResult.err = "") =>
               /\ keyPairResult.keyPair.id = keyArgument.str
               /\ keyPairResult.keyPair.controller = SplitHead(keyArgument.str)
               /\ keyPairResult.keyPair.publicKeyMultibase
                      = substring(SplitHead(keyArgument.str), Len(DidKeyPrefix))
               /\ keyPairResult.keyPair.secretKeyMultibase = <<>>

\* A key object with a secret key, an id of a supported family and the
\* publicKeyMultibase of an unsupported one was refused as mismatched.
C22_Witness ==
    /\ keyPairResult.called
    /\ Mismatching(keyArgument)
    /\ keyArgument.obj.secretKeyMultibase # <<>>
    /\ keyArgument.obj.publicKeyMultibase = <<"z", "Q", "3", "s">>
    /\ keyArgument.obj.id = DidKeyPrefix \o HeaderOf("P-256") \o KeyBody(1)
    /\ keyPairResult.err = "Mismatched DID"

\* A DID string with a fragment gave a public-only key pair.
C22_WitnessDidString ==
    /\ keyPairResult.called
    /\ keyArgument.typeof = "string"
    /\ SplitSecond(keyArgument.str) # Undefined
    /\ keyPairResult.err = ""
    /\ keyPairResult.keyPair.secretKeyMultibase = <<>>

\* A key object without publicKeyMultibase gave a key pair that has one, and the
\* object still has none.
C22_WitnessCompleted ==
    /\ keyPairResult.called
    /\ keyArgument.typeof = "object"
    /\ keyArgument.obj.publicKeyMultibase = <<>>
    /\ keyPairResult.err = ""
    /\ keyPairResult.keyPair.publicKeyMultibase # <<>>
\* C23: whenever an issueCredential call has failed, the caller's credential
\* object has the issuer and the proof it had before the call (no other
\* issueCredential call having been made on the object meanwhile).
C23_NoPartialStateOnFailure ==
    \A c \in Callers :
        (/\ issues[c].pc = "done"
         /\ issues[c].err # ""
         /\ \A d \in Callers \ {c} : issues[d].pc = "idle")
        => /\ credential.issuer = issues[c].credential.issuer
           /\ credential.proof = issues[c].credential.proof

\* issueCredential failed and the caller's credential is untouched: the suite
\* could not be made (selective disclosure asked of an Ed25519 key).
C23_FailedUnstamped ==
    /\ issues[2].pc = "done"
    /\ issues[2].err # ""
    /\ issues[1].pc = "idle"
    /\ credential = issues[2].credential
\* The call a caller made last was for a did:key URL the store had no entry for.
DidKeyLoad(c) ==
    /\ loads[c].made > 0
    /\ startsWith(loads[c].url, DidKeyPrefix)
    /\ loads[c].cached = NoDocument

\* C24: a documentLoader call for a did:key URL that is not in the context store
\* never fetches and never writes to the store; it has returned or thrown
\* without being suspended on the network; it throws only when the header of
\* the multibase is not registered; and the DID document it returns has the DID
\* authority (the URL up to '#') as id and controller, the multibase of the
\* URL as publicKeyMultibase, and exactly the DID authority under
\* assertionMethod and under authentication.
C24_DidKeyResolvedLocally ==
    \A c \in Callers :
        DidKeyLoad(c) =>
            /\ ~loads[c].fetched
            /\ loads[c].pc = "done"
            /\ contexts[loads[c].url] = NoDocument
            /\ (loads[c].result.err # "") <=>
                   (slice0(substring(SplitHead(loads[c].url), Len(DidKeyPrefix)), 3)
                        \notin suites)
            /\ (loads[c].result.err = "") =>
                   /\ loads[c].result.document.id = SplitHead(loads[c].url)
                   /\ loads[c].result.document.controller = SplitHead(loads[c].url)
                   /\ loads[c].result.document.publicKeyMultibase
                          = substring(SplitHead(loads[c].url), Len(DidKeyPrefix))
                   /\ loads[c].result.document.assertionMethod
                          = {SplitHead(loads[c].url)}
                   /\ loads[c].result.document.authentication
                          = {SplitHead(loads[c].url)}

\* A did:key URL with a fragment was resolved while another call was suspended
\* on the network.
C24_Witness ==
    /\ DidKeyLoad(1)
    /\ loads[1].url = KeyUrl
    /\ loads[1].result.err = ""
    /\ loads[1].result.document.id = DidKeyPrefix \o HeaderOf("P-256") \o KeyBody(1)
    /\ loads[2].pc = "fetch"
\* The step is caller c calling documentLoader.
Calls(c) == loads'[c].made = loads[c].made + 1

\* The step is the end of a call of c that was suspended on the network.
Settles(c) == loads[c].pc \in {"fetch", "json"} /\ loads'[c].pc = "done"

\* The call c makes in this step goes to the network, and the store is not
\* written yet.
MissFetches(c) ==
    loads'[c].pc = "fetch" /\ loads'[c].fetched /\ contexts' = contexts

\* The call c makes in this step returns `stored`, without fetching and
\* without writing.
HitReturns(c, stored) ==
    /\ loads'[c].pc = "done"
    /\ ~loads'[c].fetched
    /\ loads'[c].result.err = ""
    /\ loads'[c].result.document = stored
    /\ contexts' = contexts

\* A suspended call of c ends: with a document, written under the URL of the
\* call and under no other; or with an error and the store as it was. While
\* the call stays suspended the store is as it was.
SettlesWriting(c) ==
    /\ (Settles(c) /\ loads'[c].result.err = "") =>
           contexts' = [contexts EXCEPT ![loads[c].url] = loads'[c].result.document]
    /\ (Settles(c) /\ loads'[c].result.err # "") => contexts' = contexts
    /\ (loads[c].pc = "fetch" /\ loads'[c].pc = "json") => contexts' = contexts

\* C25 as stated: a load of a URL that is neither in the store nor a did:key
\* URL fetches; a fetch that succeeds writes the document under that URL and no
\* other, one that fails leaves the store unchanged; and a load of a URL that
\* has an entry in the store, whatever was written there, returns the entry
\* without fetching and without writing.
C25_CacheContract ==
    [][\A c \in Callers :
          /\ (/\ Calls(c)
              /\ contexts[loads'[c].url] = NoDocument
              /\ ~startsWith(loads'[c].url, DidKeyPrefix)) => MissFetches(c)
          /\ SettlesWriting(c)
          /\ (Calls(c) /\ contexts[loads'[c].url] # NoDocument) =>
                 HitReturns(c, contexts[loads'[c].url])]_vars

\* C25, amended: what decides is the lookup contexts[url] and whether it is
\* truthy. A load of a URL that is no did:key URL fetches when the lookup finds
\* nothing or finds null (a fetch was answered with the JSON value null and
\* null was stored); a load returns what the lookup finds, without fetching
\* and without writing, when that is truthy: a JSON object stored under the
\* URL, or what the store inherits under a name of Object.prototype.
C25_CacheContractOfObjects ==
    [][\A c \in Callers :
          /\ (/\ Calls(c)
              /\ ~Truthy(contexts_get(contexts, loads'[c].url))
              /\ ~startsWith(loads'[c].url, DidKeyPrefix)) => MissFetches(c)
          /\ SettlesWriting(c)
          /\ (Calls(c) /\ Truthy(contexts_get(contexts, loads'[c].url))) =>
                 HitReturns(c, contexts_get(contexts, loads'[c].url))]_vars

\* A call for a URL that another caller's call had fetched and stored before
\* returned the stored document without fetching; the other entries are as they
\* were built.
C25_Witness ==
    /\ loads[1].made = 1
    /\ loads[1].url = RemoteUrl
    /\ loads[1].fetched
    /\ loads[2].made = 1
    /\ loads[2].url = RemoteUrl
    /\ loads[2].cached = JsonObject("a")
    /\ ~loads[2].fetched
    /\ loads[2].result.document = JsonObject("a")
    /\ contexts = [BuiltinContexts EXCEPT ![RemoteUrl] = JsonObject("a")]
\* Both callers called documentLoader once, for the same URL, each before the
\* store had an entry for it, and both calls have returned a document.
ConcurrentPair ==
    /\ \A c \in Callers :
           /\ loads[c].made = 1
           /\ loads[c].pc = "done"
           /\ loads[c].cached = NoDocument
           /\ loads[c].result.err = ""
           /\ ~startsWith(loads[c].url, DidKeyPrefix)
    /\ loads[1].url = loads[2].url

\* C26 as stated: two concurrent calls for the same uncached URL that is no
\* did:key URL return the same document, and the store ends with that document
\* under the URL.
C26_SameDocumentEveryInterleaving ==
    ConcurrentPair =>
        /\ loads[1].result.document = loads[2].result.document
        /\ contexts[loads[1].url] = loads[1].result.document

\* C26, amended: each of the two calls fetches (nothing de-duplicates them) and
\* returns what its own fetch was answered with; the store ends with one of the
\* two answers; so when both fetches are answered with the same document, both
\* calls return it and the store ends with it.
C26_SameAnswerSameDocument ==
    ConcurrentPair =>
        /\ \A c \in Callers :
               loads[c].fetched /\ loads[c].result.document = loads[c].body
        /\ contexts[loads[1].url] \in {loads[1].body, loads[2].body}
        /\ (loads[1].body = loads[2].body) =>
               /\ loads[1].result.document = loads[2].result.document
               /\ contexts[loads[1].url] = loads[1].result.document

\* Two concurrent calls for the remote URL were answered with the same document.
C26_Witness ==
    /\ ConcurrentPair
    /\ loads[1].url = RemoteUrl
    /\ loads[1].fetched /\ loads[2].fetched
    /\ loads[1].body = JsonObject("a")
    /\ loads[2].body = JsonObject("a")
    /\ contexts[RemoteUrl] = JsonObject("a")
\* The characters of the alphabet: A-Z, a-z, 0-9.
Alphabet == {charset[i] : i \in 1..Len(charset)}

\* C27: a presentation signed without a supplied challenge has in its proof a
\* challenge of exactly 32 characters, the i-th being the character of the
\* 62-character alphabet at index (i-th random byte modulo 62); a presentation
\* signed with a supplied non-empty challenge has that challenge in its proof.
C27_ChallengeBound ==
    signed.kind = "presentation" =>
        /\ signed.proof.proofPurpose = "authentication"
        /\ (drawn.challenge # <<>>) => signed.proof.challenge = drawn.challenge
        /\ (drawn.challenge = <<>>) =>
               /\ Len(signed.proof.challenge) = 32
               /\ Len(charset) = 62 /\ Cardinality(Alphabet) = 62
               /\ \A i \in 1..32 :
                      /\ signed.proof.challenge[i] \in Alphabet
                      /\ (drawn.bytes[i] % 62) + 1 \in 1..62
                      /\ signed.proof.challenge[i] = charset[(drawn.bytes[i] % 62) + 1]

\* A challenge was generated from bytes that start at 255 and wrap around: the
\* first character is 'H' (255 mod 62 = 7), the second 'C' (2 mod 62 = 2).
C27_Witness ==
    /\ signed.kind = "presentation"
    /\ drawn.challenge = <<>>
    /\ drawn.bytes[1] = 255
    /\ drawn.bytes[2] = 2
    /\ signed.proof.challenge[1] = "H"
    /\ signed.proof.challenge[2] = "C"
    /\ Len(signed.proof.challenge) = 32

\* A supplied challenge was bound unchanged.
C27_WitnessSupplied ==
    /\ signed.kind = "presentation"
    /\ drawn.challenge = <<"c">>
    /\ signed.proof.challenge = <<"c">>
\* signPresentation has returned a presentation in this step.
SignReturned == ~calls.sign.called /\ calls.sign'.called /\ calls.sign'.err = ""

\* C28: the presentation signPresentation returns for a credential or a set of
\* credentials (no presentation given) is a signed presentation whose
\* verifiableCredential is the credential, or the credentials, passed in: when
\* the call returns it equals, credential for credential, the caller's objects.
C28_PresentationWraps ==
    [][SignReturned =>
          /\ signed'.kind = "presentation"
          /\ signed'.verifiableCredential = Embedded(calls.sign.embedded)'
          /\ Len(signed'.verifiableCredential) = Len(calls.sign'.embedded)
          /\ signed'.proof.type = "DataIntegrityProof"]_vars

\* A presentation of two credentials, the issued one and one derived from it.
C28_Witness ==
    /\ calls.sign.called
    /\ calls.sign.err = ""
    /\ calls.sign.embedded = <<"vc", "dvc">>
    /\ signed.verifiableCredential = <<issued, dvc>>
    /\ dvc.kind = "credential"

\* The envelope pass of the last verifyPresentation failed on the challenge.
ChallengeRefused ==
    presResult.presentationResult.error = "The challenge is not as expected"

\* C29: a verifyPresentation call without a challenge never fails on the
\* challenge, and its outcome is the one of a call that supplies the challenge
\* of the presentation's proof; for a presentation as it was signed (with a
\* plain cryptosuite), with no challenge and no verification method supplied,
\* the envelope pass verifies whichever challenge it was signed with (a
\* supplied or a generated one); and the envelope pass fails on the
\* challenge only when the caller supplied one that differs from
\* proof.challenge.
C29_ChallengeDefaultsToProof ==
    (presResult.called /\ ~presResult.thrown) =>
        /\ (presResult.challenge = <<>>) =>
               /\ ~ChallengeRefused
               /\ presResult.verified =
                      vc_verify([presentation |-> presResult.presentation,
                                 challenge |-> presResult.presentation.proof.challenge,
                                 presentationVerificationMethod |->
                                     presResult.presentationVerificationMethod,
                                 credentialVerificationMethod |->
                                     presResult.credentialVerificationMethod,
                                 documentLoader |-> Loader(contexts, Offline)]).verified
               /\ (/\ presResult.presentation = signed
                   /\ signed.proof.cryptosuite \in PlainNames
                   /\ presResult.presentationVerificationMethod = NoMethod) =>
                      presResult.presentationResult.verified
        /\ ChallengeRefused =>
               /\ presResult.challenge # <<>>
               /\ presResult.challenge # presResult.presentation.proof.challenge

\* A presentation signed with a generated challenge was verified by a caller
\* who supplied none, and its envelope verified.
C29_Witness ==
    /\ presResult.called
    /\ presResult.challenge = <<>>
    /\ presResult.presentation = signed
    /\ Len(signed.proof.challenge) = ChallengeLength
    /\ presResult.presentationResult.verified

\* A caller supplied a challenge other than the signed one, and the envelope
\* pass failed on it.
C29_WitnessRefused ==
    /\ presResult.called
    /\ presResult.challenge = <<"c">>
    /\ Len(presResult.presentation.proof.challenge) = ChallengeLength
    /\ ChallengeRefused
    /\ ~presResult.verified
\* The options the by-prefix selector is called with for a key of a header.
SelectorOptions(header) ==
    {[useSelectiveDisclosure |-> sd, mandatoryPointers |-> mp,
      key |-> [NoKey EXCEPT !.publicKeyMultibase = header \o KeyBody(1)]] :
        sd \in BOOLEAN, mp \in MandatoryPointerChoices}

\* The cryptosuite names a proof can carry: the ones of the selector and of the
\* tables, an unregistered one, none.
ProofNames ==
    {suites_cryptosuite(h, o).name : h \in suites, o \in UNION {SelectorOptions(g) : g \in suites}}
    \cup verifers \cup {"unknown-2020", ""}

\* The names derive_suite builds a disclose suite for.
DerivableNames ==
    {n \in ProofNames :
        derive_suite([verifiableCredential |->
                          [proof |-> [type |-> "DataIntegrityProof", cryptosuite |-> n]],
                      selectivePointers |-> Absent]).err = ""}

\* C30: every cryptosuite the by-prefix selector returns, for every header of
\* the table and every options value it does not throw on, has a name with an
\* entry in verifers; so has every name derive_suite accepts; hence every proof
\* the library issued, derived or signed names a cryptosuite of verifers, and
\* verifying such a document never fails as an unsupported cryptosuite.
C30_RegistryConsistent ==
    /\ \A h \in suites : \A o \in SelectorOptions(h) :
           suites_cryptosuite(h, o).err = "" => suites_cryptosuite(h, o).name \in verifers
    /\ DerivableNames \subseteq verifers
    /\ (calls.issue.called /\ calls.issue.err = "") => issued.proof.cryptosuite \in verifers
    /\ (calls.derive.called /\ calls.derive.err = "") => dvc.proof.cryptosuite \in verifers
    /\ (calls.sign.called /\ calls.sign.err = "") => signed.proof.cryptosuite \in verifers
    /\ (credResult.called /\ credResult.credential \in {issued, dvc}) =>
           credResult.error # "Unsupported cryptosuite"
    /\ (presResult.called /\ presResult.presentation = signed) =>
           presResult.presentationResult.error # "Unsupported cryptosuite"

\* A credential issued with an SM2 key and selective disclosure ('sm2-sd-2023')
\* was derived from, and what was derived was verified.
C30_Witness ==
    /\ calls.issue.called /\ calls.issue.err = ""
    /\ issued.proof.cryptosuite = "sm2-sd-2023"
    /\ calls.derive.called /\ calls.derive.err = ""
    /\ dvc.proof.cryptosuite = "sm2-sd-2023"
    /\ credResult.called
    /\ credResult.credential = dvc
    /\ credResult.verified
    /\ DerivableNames = {"bbs-2023", "ecdsa-sd-2023", "sm2-sd-2023"}
====
